---- MODULE Spec2Model ----
\* Single-source shortest paths (SsspImplementation::SSSP and its nine
\* strategies), the validator (SsspAssertValid) and the statistics
\* (SsspStatistics::Compute) of pagerank-pull.cpp, as a state machine.
EXTENDS Integers, Sequences, FiniteSets, Bags, TLC

\* ---------------------------------------------------------------------------
\* Bounds of the model
\* ---------------------------------------------------------------------------
\* the input graphs have at most MaxEdges edges
MaxEdges == 4
\* worker threads of the parallel executor
NumThreads == 2
\* delta-step shifts are 0 and MaxShift (bucket width 2^shift)
MaxShift == 1
\* edge tile sizes are 1 and MaxTileSize
MaxTileSize == 2
\* finite distances of a caller-given distance column are 0..MaxGivenDist
MaxGivenDist == 1

\* ---------------------------------------------------------------------------
\* Program constants
\* ---------------------------------------------------------------------------
\* the sentinel of an unreached node: numeric_limits<uint32_t>::max() / 4
kDistanceInfinity == 1073741823

ParallelDelta == {"kDeltaStep", "kDeltaTile", "kDeltaStepBarrier"}
SerialDelta == {"kSerialDelta", "kSerialDeltaTile"}
Dijkstra == {"kDijkstra", "kDijkstraTile"}
Topological == {"kTopological", "kTopologicalTile"}
Tiled == {"kDeltaTile", "kSerialDeltaTile", "kDijkstraTile", "kTopologicalTile"}
Bucketed == {"kDeltaStepBarrier", "kSerialDelta", "kSerialDeltaTile"}
Algorithms == ParallelDelta \cup SerialDelta \cup Dijkstra \cup Topological
\* a plan whose algorithm value is none of the switch's cases
kUnknownAlgorithm == "kUnknown"

\* katana::Result<void>: success or an error code
Result(code) == [code |-> code]

\* ---------------------------------------------------------------------------
\* Graphs: adjacency array, edges grouped by source node
\* ---------------------------------------------------------------------------
Edge(u, v, w) == [src |-> u, dst |-> v, w |-> w]

\* the edges the input graphs are made of, in adjacency-array order: the
\* diamond 0->1 (1), 0->2 (4), 1->3 (2), 2->3 (1), the shortcut 1->2 (1) and
\* the zero-weight cycle 0->3, 3->0
Skeleton ==
  <<Edge(0, 1, 1), Edge(0, 2, 4), Edge(0, 3, 0), Edge(1, 2, 1),
    Edge(1, 3, 2), Edge(2, 3, 1), Edge(3, 0, 0)>>

RECURSIVE SubsetsUpTo(_, _)
SubsetsUpTo(S, k) ==
  IF k = 0 THEN {{}}
  ELSE LET R == SubsetsUpTo(S, k - 1)
       IN  R \cup {T \cup {e} : T \in R, e \in S}

\* the edges of Skeleton at the positions in I, in order
RECURSIVE Select(_, _)
Select(I, k) ==
  IF k > Len(Skeleton) THEN << >>
  ELSE (IF k \in I THEN <<Skeleton[k]>> ELSE << >>) \o Select(I, k + 1)

SkeletonGraphs ==
  {[size |-> 4, edges |-> Select(I, 1)] :
     I \in SubsetsUpTo(1..Len(Skeleton), MaxEdges)}

\* the 4-node diamond 0->1 (1), 0->2 (4), 1->3 (2), 2->3 (1)
Diamond ==
  [size |-> 4,
   edges |-> <<Edge(0, 1, 1), Edge(0, 2, 4), Edge(1, 3, 2), Edge(2, 3, 1)>>]

\* node 2 is first reached over the long edge and then improved through node 1
Shortcut ==
  [size |-> 4,
   edges |-> <<Edge(0, 1, 1), Edge(0, 2, 4), Edge(1, 2, 1), Edge(2, 3, 1)>>]

\* a 5-node chain
Chain ==
  [size |-> 5,
   edges |-> <<Edge(0, 1, 1), Edge(1, 2, 0), Edge(2, 3, 1), Edge(3, 4, 2)>>]

\* the 3-node graph with the edge 0->1 and the isolated node 2
Isolated ==
  [size |-> 3, edges |-> <<Edge(0, 1, 1)>>]

Graphs == SkeletonGraphs \cup {Diamond, Shortcut, Isolated, Chain}

VARIABLES
  graph,       \* the property graph: node count and weighted edges
  start_node,  \* argument of SSSP and of SsspAssertValid
  plan,        \* SsspPlan: algorithm, delta (shift), edge_tile_size
  dist,        \* the node distance column (std::atomic<Weight> per node)
  pc,          \* where the caller is
  ret,         \* the value returned by the last call
  wl,          \* pending requests of the strategy's worklist
  m_minBucket, \* SerialBucketWL's current bucket
  task,        \* the operator invocations running on the worker threads
  old_dist,    \* TopoAlgo's old_dist array
  tiles,       \* TopoTileAlgo's tiles
  todo,        \* items of the running do_all not yet handed out
  changed,     \* the GReduceLogicalOr of the topological round
  \* PageRank (pagerank-pull.cpp lines 1-326)
  pr_graph,    \* the pull graph: edges(n) lists the predecessors of n
  pr_plan,     \* PagerankPlan: algorithm, alpha, tolerance, max_iterations,
               \* initial_residual
  value,       \* PagerankValueAndOutDegreeTy::value per node
  out,         \* PagerankValueAndOutDegreeTy::out per node
  vec,         \* ComputeOutDeg's array of atomic counters
  delta,       \* the DeltaArray
  residual,    \* the ResidualArray
  iterations,  \* the round counter of ComputePRResidual, ComputePRTopological
  accum,       \* the GAccumulator of the round
  pr_pc,       \* where the PageRank call is
  pr_todo,     \* nodes of the running do_all not yet handed out
  pr_task,     \* the topological operators running on the worker threads
  \* LC_InOut_Graph
  asymmetric,  \* LC_InOut_Graph::asymmetric
  outGraph,    \* the out-edge arrays of Super, per node: <<[dst, data]>>
  inGraph,     \* LC_InOut_Graph::inGraph, per node: <<[dst, data]>>
  called       \* the last member function called on the LC_InOut_Graph

ssspvars == <<graph, start_node, plan, dist, pc, ret, wl, m_minBucket, task,
              old_dist, tiles, todo, changed>>
prvars == <<pr_graph, pr_plan, value, out, vec, delta, residual, iterations,
            accum, pr_pc, pr_todo, pr_task>>
iovars == <<asymmetric, outGraph, inGraph, called>>
vars == <<ssspvars, prvars, iovars>>

Nodes == 0..(graph.size - 1)
Edges == graph.edges

\* graph->edges(n) is the index range [edge_begin(n), edge_end(n))
edge_begin(n) == 1 + Cardinality({i \in 1..Len(Edges) : Edges[i].src < n})
edge_end(n) == 1 + Cardinality({i \in 1..Len(Edges) : Edges[i].src <= n})

\* the invocations in flight, the workers being interchangeable
Running == BagToSet(task)
AllIdle == task = EmptyBag
WorkerFree == BagCardinality(task) < NumThreads

\* a worker begins the invocation tk; Idle is an operator that has returned
Idle == [ph |-> "idle"]
Begin(tk) == IF tk = Idle THEN task ELSE task (+) SetToBag({tk})
\* the invocation tk goes on as nx, or returns
Step(tk, nx) ==
  IF nx = Idle THEN task (-) SetToBag({tk})
  ELSE (task (-) SetToBag({tk})) (+) SetToBag({nx})

RECURSIVE Pow2(_)
Pow2(k) == IF k = 0 THEN 1 ELSE 2 * Pow2(k - 1)

\* ---------------------------------------------------------------------------
\* Requests and tiles (BfsSsspImplementationBase)
\* ---------------------------------------------------------------------------
UpdateRequest(n, d) == [src |-> n, dist |-> d]
SrcEdgeTile(n, d, b, e) == [src |-> n, dist |-> d, beg |-> b, end |-> e]

\* UpdateRequestIndexer: the bucket of a request
UpdateRequestIndexer(item) == item.dist \div Pow2(plan.delta)

\* PushEdgeTiles: the edges [beg, end) cut into tiles of edge_tile_size edges,
\* the remainder being the last tile; no tile for an empty range
RECURSIVE PushEdgeTiles(_, _, _, _)
PushEdgeTiles(n, d, beg, end) ==
  IF end - beg > plan.edge_tile_size
  THEN <<SrcEdgeTile(n, d, beg, beg + plan.edge_tile_size)>>
         \o PushEdgeTiles(n, d, beg + plan.edge_tile_size, end)
  ELSE IF end - beg > 0 THEN <<SrcEdgeTile(n, d, beg, end)>> ELSE << >>

ReqPushWrap(q, n, d) == Append(q, UpdateRequest(n, d))
SrcEdgeTilePushWrap(q, n, d) ==
  q \o PushEdgeTiles(n, d, edge_begin(n), edge_end(n))

\* the pushWrap the switch of SSSP passes to a tiled or a plain strategy
pushWrap(tiled, q, n, d) ==
  IF tiled THEN SrcEdgeTilePushWrap(q, n, d) ELSE ReqPushWrap(q, n, d)

OutEdgeRangeFn(item) == <<edge_begin(item.src), edge_end(item.src)>>
TileRangeFn(item) == <<item.beg, item.end>>

\* the edgeRange the switch of SSSP passes to a tiled or a plain strategy
edgeRange(tiled, item) ==
  IF tiled THEN TileRangeFn(item) ELSE OutEdgeRangeFn(item)

\* the switch picks the tiled arguments for the *Tile algorithms
IsTiled == plan.algorithm \in Tiled

RemoveAt(q, i) == SubSeq(q, 1, i - 1) \o SubSeq(q, i + 1, Len(q))

\* the first edge of a request orders the requests of one (node, distance)
FirstEdge(item) == edgeRange(IsTiled, item)[1]

Before(a, b) ==
  \/ a.src < b.src
  \/ a.src = b.src /\ a.dist < b.dist
  \/ a.src = b.src /\ a.dist = b.dist /\ FirstEdge(a) <= FirstEdge(b)

\* OBIM keeps no order among its pending requests: they are held sorted by
\* node, distance and first edge, so that equal collections are equal states
RECURSIVE Unordered(_)
Unordered(q) ==
  IF q = << >> THEN << >>
  ELSE LET i == CHOOSE k \in 1..Len(q) : \A j \in 1..Len(q) : Before(q[k], q[j])
       IN  <<q[i]>> \o Unordered(RemoveAt(q, i))

\* ---------------------------------------------------------------------------
\* Initial states
\* ---------------------------------------------------------------------------
Plans ==
  {[algorithm |-> a, delta |-> s, edge_tile_size |-> z] :
     a \in Algorithms \cup {kUnknownAlgorithm}, s \in {0, MaxShift},
     z \in {1, MaxTileSize}}

\* the tunables a strategy does not read stay at their smallest value
UsedPlan(p) ==
  /\ (p.algorithm \notin Bucketed => p.delta = 0)
  /\ (p.algorithm \notin Tiled => p.edge_tile_size = 1)

Quiescent ==
  /\ wl = << >>
  /\ m_minBucket = 0
  /\ task = EmptyBag
  /\ old_dist = << >>
  /\ tiles = << >>
  /\ todo = {}
  /\ changed = FALSE

\* what the distance column holds before SSSP is called
PriorColumn(g) == [n \in 0..(g.size - 1) |-> n + 1]

\* the columns a caller hands to the validator and to the statistics: small
\* distances, the largest distance below the sentinel, and the sentinel
GivenDistances ==
  0..MaxGivenDist \cup {kDistanceInfinity - 1, kDistanceInfinity}
GivenGraphs == {Diamond, Shortcut, Isolated, Chain}

\* no SSSP call has been made
NoPlan == [algorithm |-> "none", delta |-> 0, edge_tile_size |-> 1]

\* the caller is about to call SSSP on a freshly constructed distance column
InitSolve ==
  /\ graph \in Graphs
  /\ start_node \in 0..graph.size
  /\ plan \in {p \in Plans : UsedPlan(p)}
  /\ dist = PriorColumn(graph)
  /\ pc = "start"
  /\ ret = Result("none")
  /\ Quiescent

\* the caller holds a distance column of its own and is about to call
\* SsspAssertValid or SsspStatistics::Compute on it
InitGiven ==
  /\ graph \in GivenGraphs
  /\ start_node \in 0..(graph.size - 1)
  /\ plan = NoPlan
  /\ dist \in [0..(graph.size - 1) -> GivenDistances]
  /\ pc = "given"
  /\ ret = Result("none")
  /\ Quiescent

\* no PageRank call is made
PagerankUnused ==
  /\ pr_graph = [size |-> 0, edges |-> << >>]
  /\ pr_plan = [algorithm |-> "none"]
  /\ value = << >>
  /\ out = << >>
  /\ vec = << >>
  /\ delta = << >>
  /\ residual = << >>
  /\ iterations = 0
  /\ accum = 0
  /\ pr_pc = "unused"
  /\ pr_todo = {}
  /\ pr_task = EmptyBag

\* no LC_InOut_Graph is constructed
InOutUnused ==
  /\ asymmetric = FALSE
  /\ outGraph = << >>
  /\ inGraph = << >>
  /\ called = [op |-> "none"]

Init == (InitSolve \/ InitGiven) /\ PagerankUnused /\ InOutUnused

\* ---------------------------------------------------------------------------
\* SSSP: entry (lines 631-648) and dispatch (lines 653-696)
\* ---------------------------------------------------------------------------
\* SSSPEntry resetting the distance column before it tests the start node
SSSPEntryResetFirst ==
  /\ pc = "start"
  /\ dist' = [n \in Nodes |->
               IF n = start_node THEN 0 ELSE kDistanceInfinity]
  /\ IF start_node >= graph.size
     THEN /\ pc' = "returned"
          /\ ret' = Result("InvalidArgument")
     ELSE /\ pc' = "dispatch"
          /\ ret' = ret
  /\ UNCHANGED <<prvars, iovars>>
  /\ UNCHANGED <<graph, start_node, plan, wl, m_minBucket, task, old_dist,
                 tiles, todo, changed>>

SSSPEntry ==
  /\ pc = "start"
  /\ IF start_node >= graph.size
     THEN /\ pc' = "returned"
          /\ ret' = Result("InvalidArgument")
          /\ dist' = dist
     ELSE /\ dist' = [n \in Nodes |->
                        IF n = start_node THEN 0 ELSE kDistanceInfinity]
          /\ pc' = "dispatch"
          /\ ret' = ret
  /\ UNCHANGED <<prvars, iovars>>
  /\ UNCHANGED <<graph, start_node, plan, wl, m_minBucket, task, old_dist,
                 tiles, todo, changed>>

\* default: of the switch, reached after the distances were reset
DispatchDefault ==
  /\ pc = "dispatch"
  /\ plan.algorithm \notin Algorithms
  /\ pc' = "returned"
  /\ ret' = Result("InvalidArgument")
  /\ UNCHANGED <<prvars, iovars>>
  /\ UNCHANGED <<graph, start_node, plan, dist, wl, m_minBucket, task,
                 old_dist, tiles, todo, changed>>

\* katana::atomicMin(ref, v): the value ref holds afterwards
atomicMin(cur, v) == IF v < cur THEN v ELSE cur

\* the loop over edgeRange(item) starts, or is over at once for an empty range
StartLoop(item) ==
  LET r == edgeRange(IsTiled, item)
  IN  IF r[1] = r[2] THEN Idle
      ELSE [ph |-> "load", item |-> item, ii |-> r[1], end |-> r[2],
            new_dist |-> 0]

\* new_dist has been computed from the value d read from the source
Loaded(tk, d) ==
  [tk EXCEPT !.ph = "min", !.new_dist = d + Edges[tk.ii].w]

\* the loop moves to the next edge, or the operator returns
NextEdge(tk) ==
  IF tk.ii + 1 = tk.end THEN Idle
  ELSE [tk EXCEPT !.ph = "load", !.ii = tk.ii + 1, !.new_dist = 0]

\* ---------------------------------------------------------------------------
\* DeltaStepAlgo (lines 400-453): kDeltaStep, kDeltaTile, kDeltaStepBarrier
\* ---------------------------------------------------------------------------
DeltaStepStart ==
  /\ pc = "dispatch"
  /\ plan.algorithm \in ParallelDelta
  /\ dist' = [dist EXCEPT ![start_node] = 0]
  /\ wl' = Unordered(pushWrap(IsTiled, << >>, start_node, 0))
  /\ pc' = "run"
  /\ UNCHANGED <<prvars, iovars>>
  /\ UNCHANGED <<graph, start_node, plan, ret, m_minBucket, task, old_dist,
                 tiles, todo, changed>>

\* MayPop of a worklist that hands out any pending request under every plan
MayPopAny(i) == i \in 1..Len(wl)

\* OBIM hands out any pending request; with_barrier<true> hands out requests
\* of the lowest pending bucket only, once every request of a lower bucket
\* has been processed
MayPop(i) ==
  plan.algorithm = "kDeltaStepBarrier" =>
    /\ \A j \in 1..Len(wl) :
         UpdateRequestIndexer(wl[i]) <= UpdateRequestIndexer(wl[j])
    /\ \A tk \in Running :
         UpdateRequestIndexer(tk.item) >= UpdateRequestIndexer(wl[i])

\* DeltaStepPop with the staleness test written sdata <= item.dist
DeltaStepPopLe ==
  /\ pc = "run"
  /\ plan.algorithm \in ParallelDelta
  /\ WorkerFree
  /\ \E i \in 1..Len(wl) :
       /\ MayPop(i)
       /\ wl' = RemoveAt(wl, i)
       /\ task' = IF dist[wl[i].src] <= wl[i].dist THEN task
                  ELSE Begin(StartLoop(wl[i]))
  /\ UNCHANGED <<prvars, iovars>>
  /\ UNCHANGED <<graph, start_node, plan, dist, pc, ret, m_minBucket,
                 old_dist, tiles, todo, changed>>

\* DeltaStepPop without the staleness test
DeltaStepPopNoTest ==
  /\ pc = "run"
  /\ plan.algorithm \in ParallelDelta
  /\ WorkerFree
  /\ \E i \in 1..Len(wl) :
       /\ MayPop(i)
       /\ wl' = RemoveAt(wl, i)
       /\ task' = Begin(StartLoop(wl[i]))
  /\ UNCHANGED <<prvars, iovars>>
  /\ UNCHANGED <<graph, start_node, plan, dist, pc, ret, m_minBucket,
                 old_dist, tiles, todo, changed>>

\* a worker takes a request; a request whose distance is above the node's
\* current distance is empty work (lines 417-424)
DeltaStepPop ==
  /\ pc = "run"
  /\ plan.algorithm \in ParallelDelta
  /\ WorkerFree
  /\ \E i \in 1..Len(wl) :
       /\ MayPop(i)
       /\ wl' = RemoveAt(wl, i)
       /\ task' = IF dist[wl[i].src] < wl[i].dist THEN task
                  ELSE Begin(StartLoop(wl[i]))
  /\ UNCHANGED <<prvars, iovars>>
  /\ UNCHANGED <<graph, start_node, plan, dist, pc, ret, m_minBucket,
                 old_dist, tiles, todo, changed>>

\* DeltaStepLoad computing new_dist from the distance the request records
DeltaStepLoadItem(tk) ==
  /\ pc = "run"
  /\ plan.algorithm \in ParallelDelta
  /\ tk.ph = "load"
  /\ task' = Step(tk, Loaded(tk, tk.item.dist))
  /\ UNCHANGED <<prvars, iovars>>
  /\ UNCHANGED <<graph, start_node, plan, dist, pc, ret, wl, m_minBucket,
                 old_dist, tiles, todo, changed>>

\* new_dist = sdata + ew, sdata being a reference to the source's atomic
\* distance, read again for every edge (lines 427-430)
DeltaStepLoad(tk) ==
  /\ pc = "run"
  /\ plan.algorithm \in ParallelDelta
  /\ tk.ph = "load"
  /\ task' = Step(tk, Loaded(tk, dist[tk.item.src]))
  /\ UNCHANGED <<prvars, iovars>>
  /\ UNCHANGED <<graph, start_node, plan, dist, pc, ret, wl, m_minBucket,
                 old_dist, tiles, todo, changed>>

\* DeltaStepMin with a plain store in place of atomicMin
DeltaStepMinStore(tk) ==
  /\ pc = "run"
  /\ plan.algorithm \in ParallelDelta
  /\ tk.ph = "min"
  /\ LET dest == Edges[tk.ii].dst
         old == dist[dest]
     IN  /\ dist' = [dist EXCEPT ![dest] = tk.new_dist]
         /\ wl' = IF tk.new_dist < old
                  THEN Unordered(pushWrap(IsTiled, wl, dest, tk.new_dist))
                  ELSE wl
  /\ task' = Step(tk, NextEdge(tk))
  /\ UNCHANGED <<prvars, iovars>>
  /\ UNCHANGED <<graph, start_node, plan, pc, ret, m_minBucket, old_dist,
                 tiles, todo, changed>>

\* DeltaStepMin pushing a node only when it is reached for the first time
DeltaStepMinFirst(tk) ==
  /\ pc = "run"
  /\ plan.algorithm \in ParallelDelta
  /\ tk.ph = "min"
  /\ LET dest == Edges[tk.ii].dst
         old == dist[dest]
     IN  /\ dist' = [dist EXCEPT ![dest] = atomicMin(old, tk.new_dist)]
         /\ wl' = IF tk.new_dist < old /\ old = kDistanceInfinity
                  THEN Unordered(pushWrap(IsTiled, wl, dest, tk.new_dist))
                  ELSE wl
  /\ task' = Step(tk, NextEdge(tk))
  /\ UNCHANGED <<prvars, iovars>>
  /\ UNCHANGED <<graph, start_node, plan, pc, ret, m_minBucket, old_dist,
                 tiles, todo, changed>>

\* atomicMin on the destination and the push of the improved node
\* (lines 431-441)
DeltaStepMin(tk) ==
  /\ pc = "run"
  /\ plan.algorithm \in ParallelDelta
  /\ tk.ph = "min"
  /\ LET dest == Edges[tk.ii].dst
         old == dist[dest]
     IN  /\ dist' = [dist EXCEPT ![dest] = atomicMin(old, tk.new_dist)]
         /\ wl' = IF tk.new_dist < old
                  THEN Unordered(pushWrap(IsTiled, wl, dest, tk.new_dist))
                  ELSE wl
  /\ task' = Step(tk, NextEdge(tk))
  /\ UNCHANGED <<prvars, iovars>>
  /\ UNCHANGED <<graph, start_node, plan, pc, ret, m_minBucket, old_dist,
                 tiles, todo, changed>>

\* for_each returns when no request is pending and no operator is running
DeltaStepDone ==
  /\ pc = "run"
  /\ plan.algorithm \in ParallelDelta
  /\ wl = << >>
  /\ AllIdle
  /\ pc' = "returned"
  /\ ret' = Result("Success")
  /\ UNCHANGED <<prvars, iovars>>
  /\ UNCHANGED <<graph, start_node, plan, dist, wl, m_minBucket, task,
                 old_dist, tiles, todo, changed>>

\* ---------------------------------------------------------------------------
\* The serial relaxation loop shared by SerDeltaAlgo (lines 479-490) and
\* DijkstraAlgo (lines 525-536)
\* ---------------------------------------------------------------------------
\* SerialRelax pushing the improved node with the edge's weight as distance
RECURSIVE SerialRelaxPushWeight(_, _, _, _, _, _)
SerialRelaxPushWeight(tiled, d, q, item, ii, end) ==
  IF ii = end THEN [dist |-> d, wl |-> q]
  ELSE LET dest == Edges[ii].dst
           new_dist == item.dist + Edges[ii].w
       IN  IF new_dist < d[dest]
           THEN SerialRelaxPushWeight(tiled, [d EXCEPT ![dest] = new_dist],
                                      pushWrap(tiled, q, dest, Edges[ii].w),
                                      item, ii + 1, end)
           ELSE SerialRelaxPushWeight(tiled, d, q, item, ii + 1, end)

RECURSIVE SerialRelax(_, _, _, _, _, _)
SerialRelax(tiled, d, q, item, ii, end) ==
  IF ii = end THEN [dist |-> d, wl |-> q]
  ELSE LET dest == Edges[ii].dst
           new_dist == item.dist + Edges[ii].w
       IN  IF new_dist < d[dest]
           THEN SerialRelax(tiled, [d EXCEPT ![dest] = new_dist],
                            pushWrap(tiled, q, dest, new_dist), item,
                            ii + 1, end)
           ELSE SerialRelax(tiled, d, q, item, ii + 1, end)

\* one popped item: empty work when stale, else its edges are relaxed
SerialItem(tiled, d, q, item) ==
  IF d[item.src] < item.dist THEN [dist |-> d, wl |-> q]
  ELSE SerialRelax(tiled, d, q, item, edgeRange(tiled, item)[1],
                   edgeRange(tiled, item)[2])

\* ---------------------------------------------------------------------------
\* SerDeltaAlgo (lines 455-500) over a SerialBucketWL
\* ---------------------------------------------------------------------------
SerDeltaStart ==
  /\ pc = "dispatch"
  /\ plan.algorithm \in SerialDelta
  /\ dist' = [dist EXCEPT ![start_node] = 0]
  /\ wl' = pushWrap(IsTiled, << >>, start_node, 0)
  /\ m_minBucket' = 0
  /\ pc' = "run"
  /\ UNCHANGED <<prvars, iovars>>
  /\ UNCHANGED <<graph, start_node, plan, ret, task, old_dist, tiles, todo,
                 changed>>

\* positions of the requests of bucket b, in push order
BucketOf(b) == {i \in 1..Len(wl) : UpdateRequestIndexer(wl[i]) = b}

\* SerialBucketWL::empty(): no request in the buckets from m_minBucket on
wlEmpty == \A i \in 1..Len(wl) : UpdateRequestIndexer(wl[i]) < m_minBucket
\* SerialBucketWL::allEmpty(): no request in any bucket
wlAllEmpty == wl = << >>

\* the inner loop: front of the current bucket (lines 469-490)
SerDeltaItem ==
  /\ pc = "run"
  /\ plan.algorithm \in SerialDelta
  /\ BucketOf(m_minBucket) # {}
  /\ LET i == CHOOSE k \in BucketOf(m_minBucket) :
                \A j \in BucketOf(m_minBucket) : k <= j
         r == SerialItem(IsTiled, dist, RemoveAt(wl, i), wl[i])
     IN  /\ dist' = r.dist
         /\ wl' = r.wl
  /\ UNCHANGED <<prvars, iovars>>
  /\ UNCHANGED <<graph, start_node, plan, pc, ret, m_minBucket, task,
                 old_dist, tiles, todo, changed>>

\* goToNextBucket and the test of the outer loop (lines 466, 493); when the
\* worklist is empty the function returns, or aborts if a request was left
\* in an earlier bucket (lines 496-498)
SerDeltaNextBucket ==
  /\ pc = "run"
  /\ plan.algorithm \in SerialDelta
  /\ BucketOf(m_minBucket) = {}
  /\ IF wlEmpty
     THEN /\ m_minBucket' = m_minBucket
          /\ pc' = IF wlAllEmpty THEN "returned" ELSE "aborted"
          /\ ret' = IF wlAllEmpty THEN Result("Success") ELSE ret
     ELSE /\ m_minBucket' =
               CHOOSE b \in {UpdateRequestIndexer(wl[i]) : i \in 1..Len(wl)} :
                 /\ b >= m_minBucket
                 /\ \A i \in 1..Len(wl) :
                      UpdateRequestIndexer(wl[i]) >= m_minBucket =>
                        UpdateRequestIndexer(wl[i]) >= b
          /\ UNCHANGED <<pc, ret>>
  /\ UNCHANGED <<prvars, iovars>>
  /\ UNCHANGED <<graph, start_node, plan, dist, wl, task, old_dist, tiles,
                 todo, changed>>

\* ---------------------------------------------------------------------------
\* DijkstraAlgo (lines 502-540) over a MinHeap
\* ---------------------------------------------------------------------------
DijkstraStart ==
  /\ pc = "dispatch"
  /\ plan.algorithm \in Dijkstra
  /\ dist' = [dist EXCEPT ![start_node] = 0]
  /\ wl' = pushWrap(IsTiled, << >>, start_node, 0)
  /\ pc' = "run"
  /\ UNCHANGED <<prvars, iovars>>
  /\ UNCHANGED <<graph, start_node, plan, ret, m_minBucket, task, old_dist,
                 tiles, todo, changed>>

\* the whole function on distances d and heap q: pop, test, relax until the
\* heap is empty
RECURSIVE DijkstraAlgo(_, _, _)
DijkstraAlgo(tiled, d, q) ==
  IF q = << >> THEN d
  ELSE LET i == CHOOSE k \in 1..Len(q) : \A j \in 1..Len(q) :
                  q[k].dist <= q[j].dist
           r == SerialItem(tiled, d, RemoveAt(q, i), q[i])
       IN  DijkstraAlgo(tiled, r.dist, r.wl)

\* wl.pop() returns a request of least distance
DijkstraItem ==
  /\ pc = "run"
  /\ plan.algorithm \in Dijkstra
  /\ \E i \in 1..Len(wl) :
       /\ \A j \in 1..Len(wl) : wl[i].dist <= wl[j].dist
       /\ LET r == SerialItem(IsTiled, dist, RemoveAt(wl, i), wl[i])
          IN  /\ dist' = r.dist
              /\ wl' = r.wl
  /\ UNCHANGED <<prvars, iovars>>
  /\ UNCHANGED <<graph, start_node, plan, pc, ret, m_minBucket, task,
                 old_dist, tiles, todo, changed>>

DijkstraDone ==
  /\ pc = "run"
  /\ plan.algorithm \in Dijkstra
  /\ wl = << >>
  /\ pc' = "returned"
  /\ ret' = Result("Success")
  /\ UNCHANGED <<prvars, iovars>>
  /\ UNCHANGED <<graph, start_node, plan, dist, wl, m_minBucket, task,
                 old_dist, tiles, todo, changed>>

\* ---------------------------------------------------------------------------
\* TopoAlgo (lines 542-583) and TopoTileAlgo (lines 585-628)
\* ---------------------------------------------------------------------------
TopoStart ==
  /\ pc = "dispatch"
  /\ plan.algorithm = "kTopological"
  /\ old_dist' = [n \in Nodes |-> kDistanceInfinity]
  /\ dist' = [dist EXCEPT ![start_node] = 0]
  /\ changed' = FALSE
  /\ todo' = Nodes
  /\ pc' = "run"
  /\ UNCHANGED <<prvars, iovars>>
  /\ UNCHANGED <<graph, start_node, plan, ret, wl, m_minBucket, task, tiles>>

RECURSIVE MakeTiles(_)
MakeTiles(n) ==
  IF n = graph.size THEN << >>
  ELSE PushEdgeTiles(n, kDistanceInfinity, edge_begin(n), edge_end(n))
         \o MakeTiles(n + 1)

TopoTileStart ==
  /\ pc = "dispatch"
  /\ plan.algorithm = "kTopologicalTile"
  /\ dist' = [dist EXCEPT ![start_node] = 0]
  /\ tiles' = MakeTiles(0)
  /\ changed' = FALSE
  /\ todo' = 1..Len(tiles')
  /\ pc' = "run"
  /\ UNCHANGED <<prvars, iovars>>
  /\ UNCHANGED <<graph, start_node, plan, ret, wl, m_minBucket, task,
                 old_dist>>

\* TopoNode relaxing without recording the distance in old_dist
TopoNodeNoRecord ==
  /\ pc = "run"
  /\ plan.algorithm = "kTopological"
  /\ WorkerFree
  /\ \E n \in todo :
       /\ todo' = todo \ {n}
       /\ IF old_dist[n] > dist[n]
          THEN /\ changed' = TRUE
               /\ task' = Begin(StartLoop(UpdateRequest(n, dist[n])))
          ELSE UNCHANGED <<changed, task>>
  /\ UNCHANGED <<prvars, iovars>>
  /\ UNCHANGED <<graph, start_node, plan, dist, pc, ret, wl, m_minBucket,
                 tiles, old_dist>>

\* a worker takes node n of the round (lines 562-568)
TopoNode ==
  /\ pc = "run"
  /\ plan.algorithm = "kTopological"
  /\ WorkerFree
  /\ \E n \in todo :
       /\ todo' = todo \ {n}
       /\ IF old_dist[n] > dist[n]
          THEN /\ old_dist' = [old_dist EXCEPT ![n] = dist[n]]
               /\ changed' = TRUE
               /\ task' = Begin(StartLoop(UpdateRequest(n, dist[n])))
          ELSE UNCHANGED <<old_dist, changed, task>>
  /\ UNCHANGED <<prvars, iovars>>
  /\ UNCHANGED <<graph, start_node, plan, dist, pc, ret, wl, m_minBucket,
                 tiles>>

\* TopoTile without changed.update(true)
TopoTileNoUpdate ==
  /\ pc = "run"
  /\ plan.algorithm = "kTopologicalTile"
  /\ WorkerFree
  /\ \E k \in todo :
       /\ todo' = todo \ {k}
       /\ IF tiles[k].dist > dist[tiles[k].src]
          THEN /\ tiles' = [tiles EXCEPT ![k].dist = dist[tiles[k].src]]
               /\ task' = Begin(StartLoop(tiles'[k]))
          ELSE UNCHANGED <<tiles, task>>
  /\ UNCHANGED <<prvars, iovars>>
  /\ UNCHANGED <<graph, start_node, plan, dist, pc, ret, wl, m_minBucket,
                 old_dist, changed>>

\* a worker takes tile k of the round (lines 607-613)
TopoTile ==
  /\ pc = "run"
  /\ plan.algorithm = "kTopologicalTile"
  /\ WorkerFree
  /\ \E k \in todo :
       /\ todo' = todo \ {k}
       /\ IF tiles[k].dist > dist[tiles[k].src]
          THEN /\ tiles' = [tiles EXCEPT ![k].dist = dist[tiles[k].src]]
               /\ changed' = TRUE
               /\ task' = Begin(StartLoop(tiles'[k]))
          ELSE UNCHANGED <<tiles, changed, task>>
  /\ UNCHANGED <<prvars, iovars>>
  /\ UNCHANGED <<graph, start_node, plan, dist, pc, ret, wl, m_minBucket,
                 old_dist>>

\* new_dist = sdata + weight, sdata read again for every edge
\* (lines 570-571, 615-616)
TopoLoad(tk) ==
  /\ pc = "run"
  /\ plan.algorithm \in Topological
  /\ tk.ph = "load"
  /\ task' = Step(tk, Loaded(tk, dist[tk.item.src]))
  /\ UNCHANGED <<prvars, iovars>>
  /\ UNCHANGED <<graph, start_node, plan, dist, pc, ret, wl, m_minBucket,
                 old_dist, tiles, todo, changed>>

\* TopoMin with a plain store in place of atomicMin
TopoMinStore(tk) ==
  /\ pc = "run"
  /\ plan.algorithm \in Topological
  /\ tk.ph = "min"
  /\ dist' = [dist EXCEPT ![Edges[tk.ii].dst] = tk.new_dist]
  /\ task' = Step(tk, NextEdge(tk))
  /\ UNCHANGED <<prvars, iovars>>
  /\ UNCHANGED <<graph, start_node, plan, pc, ret, wl, m_minBucket,
                 old_dist, tiles, todo, changed>>

\* atomicMin on the destination (lines 572-574, 617-619)
TopoMin(tk) ==
  /\ pc = "run"
  /\ plan.algorithm \in Topological
  /\ tk.ph = "min"
  /\ dist' = [dist EXCEPT ![Edges[tk.ii].dst] = atomicMin(@, tk.new_dist)]
  /\ task' = Step(tk, NextEdge(tk))
  /\ UNCHANGED <<prvars, iovars>>
  /\ UNCHANGED <<graph, start_node, plan, pc, ret, wl, m_minBucket,
                 old_dist, tiles, todo, changed>>

\* TopoRoundEnd leaving the loop after the first round
TopoRoundEndOnce ==
  /\ pc = "run"
  /\ plan.algorithm \in Topological
  /\ todo = {}
  /\ AllIdle
  /\ pc' = "returned"
  /\ ret' = Result("Success")
  /\ UNCHANGED <<prvars, iovars>>
  /\ UNCHANGED <<graph, start_node, plan, dist, wl, m_minBucket, task,
                 old_dist, tiles, todo, changed>>

\* TopoRoundEnd without changed.reset() at the head of the next round
TopoRoundEndNoReset ==
  /\ pc = "run"
  /\ plan.algorithm \in Topological
  /\ todo = {}
  /\ AllIdle
  /\ IF changed
     THEN /\ todo' = IF plan.algorithm = "kTopological" THEN Nodes
                     ELSE 1..Len(tiles)
          /\ UNCHANGED <<pc, ret>>
     ELSE /\ pc' = "returned"
          /\ ret' = Result("Success")
          /\ todo' = todo
  /\ UNCHANGED <<prvars, iovars>>
  /\ UNCHANGED <<graph, start_node, plan, dist, wl, m_minBucket, task,
                 old_dist, tiles, changed>>

\* the do_all is over: another round if changed (lines 556-558, 580), else
\* the function returns
TopoRoundEnd ==
  /\ pc = "run"
  /\ plan.algorithm \in Topological
  /\ todo = {}
  /\ AllIdle
  /\ IF changed
     THEN /\ changed' = FALSE
          /\ todo' = IF plan.algorithm = "kTopological" THEN Nodes
                     ELSE 1..Len(tiles)
          /\ UNCHANGED <<pc, ret>>
     ELSE /\ pc' = "returned"
          /\ ret' = Result("Success")
          /\ UNCHANGED <<changed, todo>>
  /\ UNCHANGED <<prvars, iovars>>
  /\ UNCHANGED <<graph, start_node, plan, dist, wl, m_minBucket, task,
                 old_dist, tiles>>

\* ---------------------------------------------------------------------------
\* SsspValidateImpl (lines 779-809)
\* ---------------------------------------------------------------------------
\* NotConsistent over the edges from index i on: some edge's destination is
\* farther than its source's distance plus the weight
RECURSIVE NotConsistent(_)
NotConsistent(i) ==
  IF i > Len(Edges) THEN FALSE
  ELSE \/ dist[Edges[i].dst] > dist[Edges[i].src] + Edges[i].w
       \/ NotConsistent(i + 1)

\* SsspValidateImpl without the test of the start node's distance
SsspValidateImplEdgesOnly ==
  IF NotConsistent(1) THEN "AssertionFailed" ELSE "Success"

SsspValidateImpl ==
  IF dist[start_node] # 0 THEN "AssertionFailed"
  ELSE IF NotConsistent(1) THEN "AssertionFailed"
  ELSE "Success"

\* the caller may validate or summarise a column SSSP has filled, or its own
Callable == pc = "given" \/ (pc = "returned" /\ ret = Result("Success"))

SsspAssertValid ==
  /\ Callable
  /\ pc' = "validated"
  /\ ret' = Result(SsspValidateImpl)
  /\ UNCHANGED <<prvars, iovars>>
  /\ UNCHANGED <<graph, start_node, plan, dist, wl, m_minBucket, task,
                 old_dist, tiles, todo, changed>>

\* ---------------------------------------------------------------------------
\* ComputeStatistics (lines 844-879)
\* ---------------------------------------------------------------------------
\* a uint32_t sum as two 16-bit halves, value hi * 2^16 + lo
Half == Pow2(16)
Halves(d) == [hi |-> d \div Half, lo |-> d % Half]

\* GAccumulator<Weight>::operator+= on uint32_t: the sum modulo 2^32
Accumulate(sum, d) ==
  LET lo == sum.lo + (d % Half)
      hi == sum.hi + (d \div Half) + (lo \div Half)
  IN  [hi |-> hi % Half, lo |-> lo % Half]

\* the quotient double(sum) / count, kept as a fraction
Ratio(a, b) == [num |-> a, den |-> b]

\* a node below the sentinel is counted as visited (line 867)
Visited(d) == d < kDistanceInfinity

\* the do_all over the nodes from i on, with the three reducers
RECURSIVE StatisticsLoop(_, _, _, _)
StatisticsLoop(i, max_dist, sum_dist, num_visited) ==
  IF i = graph.size
  THEN [n_reached_nodes |-> num_visited,
        max_distance |-> max_dist,
        average_visited_distance |-> Ratio(sum_dist, num_visited)]
  ELSE IF Visited(dist[i])
       THEN StatisticsLoop(i + 1,
                           IF dist[i] > max_dist THEN dist[i] ELSE max_dist,
                           Accumulate(sum_dist, dist[i]), num_visited + 1)
       ELSE StatisticsLoop(i + 1, max_dist, sum_dist, num_visited)

ComputeStatistics ==
  /\ Callable
  /\ pc' = "reported"
  /\ ret' = StatisticsLoop(0, 0, Halves(0), 0)
  /\ UNCHANGED <<prvars, iovars>>
  /\ UNCHANGED <<graph, start_node, plan, dist, wl, m_minBucket, task,
                 old_dist, tiles, todo, changed>>

\* ---------------------------------------------------------------------------
\* Next-state relation
\* ---------------------------------------------------------------------------
Solve ==
  \/ SSSPEntry
  \/ DispatchDefault
  \/ DeltaStepStart
  \/ DeltaStepPop
  \/ \E tk \in Running : DeltaStepLoad(tk)
  \/ \E tk \in Running : DeltaStepMin(tk)
  \/ DeltaStepDone
  \/ SerDeltaStart
  \/ SerDeltaItem
  \/ SerDeltaNextBucket
  \/ DijkstraStart
  \/ DijkstraItem
  \/ DijkstraDone
  \/ TopoStart
  \/ TopoTileStart
  \/ TopoNode
  \/ TopoTile
  \/ \E tk \in Running : TopoLoad(tk)
  \/ \E tk \in Running : TopoMin(tk)
  \/ TopoRoundEnd

Next == Solve \/ SsspAssertValid \/ ComputeStatistics

Spec == Init /\ [][Next]_vars

\* the diamond's upper path with the zero-weight cycle 0->3->0
Cyclic ==
  [size |-> 4,
   edges |-> <<Edge(0, 1, 1), Edge(0, 3, 0), Edge(1, 3, 2), Edge(3, 0, 0)>>]

\* the calls of SSSP whose progress is followed to the end
LiveGraphs == {Diamond, Shortcut, Isolated, Chain, Cyclic}
LiveInit == InitSolve /\ graph \in LiveGraphs /\ PagerankUnused /\ InOutUnused

\* the executor keeps running its workers and the serial loops keep looping
\* until the strategy returns
FairSpec == LiveInit /\ [][Solve]_vars /\ WF_vars(Solve)

\* ---------------------------------------------------------------------------
\* PageRank: PRTy arithmetic, kept exact as fractions num/den in lowest terms
\* ---------------------------------------------------------------------------
Abs(x) == IF x < 0 THEN 0 - x ELSE x

RECURSIVE GCD(_, _)
GCD(a, b) == IF b = 0 THEN a ELSE GCD(b, a % b)

LCM(a, b) == (a \div GCD(a, b)) * b

Frac(n, d) ==
  LET g == GCD(Abs(n), d) IN [num |-> n \div g, den |-> d \div g]

FPlus(x, y) ==
  LET l == LCM(x.den, y.den)
  IN  Frac(x.num * (l \div x.den) + y.num * (l \div y.den), l)

FMinus(x, y) == FPlus(x, [num |-> 0 - y.num, den |-> y.den])

FTimes(x, y) ==
  LET g == GCD(Abs(x.num), y.den)
      h == GCD(Abs(y.num), x.den)
  IN  Frac((x.num \div g) * (y.num \div h), (x.den \div h) * (y.den \div g))

\* x / k for a positive integer k
FOver(x, k) == FTimes(x, Frac(1, k))

FLess(x, y) ==
  LET l == LCM(x.den, y.den)
  IN  x.num * (l \div x.den) < y.num * (l \div y.den)

FLessEq(x, y) == ~FLess(y, x)

\* std::fabs
fabs(x) == [num |-> Abs(x.num), den |-> x.den]

\* ---------------------------------------------------------------------------
\* PageRank: graphs and plans
\* ---------------------------------------------------------------------------
\* rounds a plan allows: max_iterations is in 0..MaxIterations
MaxIterations == 3

\* the pull graph lists, for node n, an entry for every predecessor p of n
Arc(n, p) == [src |-> n, dst |-> p]

\* 0->1, 1->0
TwoCycle == [size |-> 2, edges |-> <<Arc(0, 1), Arc(1, 0)>>]
\* 0->1: node 1 has no outgoing edge
DanglingPair == [size |-> 2, edges |-> <<Arc(1, 0)>>]
\* 0->1, 2->1, 1->0, 1->2
Hub == [size |-> 3, edges |-> <<Arc(0, 1), Arc(1, 0), Arc(1, 2), Arc(2, 1)>>]
\* 0->1, 0->2, 1->2: node 2 has no outgoing edge
Funnel == [size |-> 3, edges |-> <<Arc(1, 0), Arc(2, 0), Arc(2, 1)>>]

PagerankGraphs == {TwoCycle, DanglingPair, Hub, Funnel}

kPullTopological == "kPullTopological"
kPullResidual == "kPullResidual"

Alphas == {Frac(1, 2), Frac(17, 20)}
Tolerances == {Frac(0, 1), Frac(1, 15)}
InitialResiduals == {Frac(3, 40), Frac(3, 20), Frac(1, 2)}

PagerankPlans ==
  {[algorithm |-> a, alpha |-> al, tolerance |-> t, max_iterations |-> m,
    initial_residual |-> r] :
     a \in {kPullTopological, kPullResidual}, al \in Alphas,
     t \in Tolerances, m \in 0..MaxIterations, r \in InitialResiduals}

\* the topological strategy does not read initial_residual; alpha = 0.85 is
\* run on the 2-cycle
UsedPagerankPlan(g, p) ==
  /\ (p.algorithm = kPullTopological => p.initial_residual = Frac(3, 40))
  /\ (p.alpha = Frac(17, 20) => g = TwoCycle)

PRNodes == 0..(pr_graph.size - 1)
PREdges == pr_graph.edges
pr_edge_begin(n) ==
  1 + Cardinality({i \in 1..Len(PREdges) : PREdges[i].src < n})
pr_edge_end(n) ==
  1 + Cardinality({i \in 1..Len(PREdges) : PREdges[i].src <= n})

\* SSSP is not called
SsspUnused ==
  /\ graph = [size |-> 0, edges |-> << >>]
  /\ start_node = 0
  /\ plan = NoPlan
  /\ dist = << >>
  /\ pc = "unused"
  /\ ret = Result("none")
  /\ Quiescent

\* PagerankPullTopological or PagerankPullResidual is about to initialise
\* the node data
PagerankInit ==
  /\ pr_graph \in PagerankGraphs
  /\ pr_plan \in {p \in PagerankPlans : UsedPagerankPlan(pr_graph, p)}
  /\ value = << >>
  /\ out = << >>
  /\ vec = << >>
  /\ delta = << >>
  /\ residual = << >>
  /\ iterations = 0
  /\ accum = IF pr_plan.algorithm = kPullTopological THEN Frac(0, 1) ELSE 0
  /\ pr_pc = "start"
  /\ pr_todo = {}
  /\ pr_task = EmptyBag
  /\ SsspUnused
  /\ InOutUnused

\* ---------------------------------------------------------------------------
\* InitNodeDataTopological (46-57), InitNodeDataResidual (60-74),
\* ComputeOutDeg (78-111)
\* ---------------------------------------------------------------------------
InitNodeDataTopological ==
  /\ pr_pc = "start"
  /\ pr_plan.algorithm = kPullTopological
  /\ value' = [n \in PRNodes |-> Frac(1, pr_graph.size)]
  /\ out' = [n \in PRNodes |-> 0]
  /\ pr_pc' = "initialised"
  /\ UNCHANGED <<ssspvars, iovars>>
  /\ UNCHANGED <<pr_graph, pr_plan, vec, delta, residual, iterations, accum,
                 pr_todo, pr_task>>

InitNodeDataResidual ==
  /\ pr_pc = "start"
  /\ pr_plan.algorithm = kPullResidual
  /\ value' = [n \in PRNodes |-> Frac(0, 1)]
  /\ out' = [n \in PRNodes |-> 0]
  /\ delta' = [n \in PRNodes |-> Frac(0, 1)]
  /\ residual' = [n \in PRNodes |-> pr_plan.initial_residual]
  /\ pr_pc' = "initialised"
  /\ UNCHANGED <<ssspvars, iovars>>
  /\ UNCHANGED <<pr_graph, pr_plan, vec, iterations, accum, pr_todo, pr_task>>

\* the first do_all: vec.constructAt(src, 0ul) for every node (lines 86-89);
\* the increments of the second do_all are pending, one per entry
InitDegVec ==
  /\ pr_pc = "initialised"
  /\ vec' = [n \in PRNodes |-> 0]
  /\ pr_pc' = "ComputeOutDeg"
  /\ pr_todo' = 1..Len(PREdges)
  /\ UNCHANGED <<ssspvars, iovars>>
  /\ UNCHANGED <<pr_graph, pr_plan, value, out, delta, residual, iterations,
                 accum, pr_task>>

\* the task of a node takes its entries in order: entry i is its next one
NextEntry(i) ==
  /\ i \in pr_todo
  /\ \A j \in pr_todo : PREdges[j].src = PREdges[i].src => i <= j

\* ComputeOutDeg with the store vec[*dest] = 1 in place of fetch_add
ComputeOutDegStore(i) ==
  /\ pr_pc = "ComputeOutDeg"
  /\ NextEntry(i)
  /\ vec' = [vec EXCEPT ![PREdges[i].dst] = 1]
  /\ pr_todo' = pr_todo \ {i}
  /\ UNCHANGED <<ssspvars, iovars>>
  /\ UNCHANGED <<pr_graph, pr_plan, value, out, delta, residual, iterations,
                 accum, pr_pc, pr_task>>

\* the second do_all: vec[*dest].fetch_add(1ul) for entry i, the tasks of
\* the nodes interleaved (lines 91-101)
ComputeOutDeg(i) ==
  /\ pr_pc = "ComputeOutDeg"
  /\ NextEntry(i)
  /\ vec' = [vec EXCEPT ![PREdges[i].dst] = @ + 1]
  /\ pr_todo' = pr_todo \ {i}
  /\ UNCHANGED <<ssspvars, iovars>>
  /\ UNCHANGED <<pr_graph, pr_plan, value, out, delta, residual, iterations,
                 accum, pr_pc, pr_task>>

\* the third do_all: sdata.out = vec[src] for every node (lines 103-109);
\* vec goes out of scope and the strategy's first do_all is next
CopyDeg ==
  /\ pr_pc = "ComputeOutDeg"
  /\ pr_todo = {}
  /\ out' = [n \in PRNodes |-> vec[n]]
  /\ vec' = << >>
  /\ pr_pc' = IF pr_plan.algorithm = kPullTopological
              THEN "Pagerank Topological"
              ELSE "PageRank_delta"
  /\ pr_todo' = PRNodes
  /\ UNCHANGED <<ssspvars, iovars>>
  /\ UNCHANGED <<pr_graph, pr_plan, value, delta, residual, iterations, accum,
                 pr_task>>

\* ---------------------------------------------------------------------------
\* ComputePRResidual (122-178)
\* ---------------------------------------------------------------------------
\* PageRankDelta counting the node as active whatever its out-degree
PageRankDeltaCountAll(src) ==
  /\ pr_pc = "PageRank_delta"
  /\ src \in pr_todo
  /\ pr_todo' = pr_todo \ {src}
  /\ IF FLess(pr_plan.tolerance, residual[src])
     THEN /\ residual' = [residual EXCEPT ![src] = Frac(0, 1)]
          /\ value' = [value EXCEPT ![src] = FPlus(@, residual[src])]
          /\ accum' = accum + 1
          /\ delta' = [delta EXCEPT ![src] =
                         IF out[src] > 0
                         THEN FOver(FTimes(residual[src], pr_plan.alpha),
                                    out[src])
                         ELSE Frac(0, 1)]
     ELSE /\ delta' = [delta EXCEPT ![src] = Frac(0, 1)]
          /\ UNCHANGED <<residual, value, accum>>
  /\ UNCHANGED <<ssspvars, iovars>>
  /\ UNCHANGED <<pr_graph, pr_plan, vec, out, iterations, pr_pc, pr_task>>

\* PageRankDelta with the test residual[src] >= tolerance
PageRankDeltaGe(src) ==
  /\ pr_pc = "PageRank_delta"
  /\ src \in pr_todo
  /\ pr_todo' = pr_todo \ {src}
  /\ IF FLessEq(pr_plan.tolerance, residual[src])
     THEN /\ residual' = [residual EXCEPT ![src] = Frac(0, 1)]
          /\ value' = [value EXCEPT ![src] = FPlus(@, residual[src])]
          /\ IF out[src] > 0
             THEN /\ delta' = [delta EXCEPT ![src] =
                                 FOver(FTimes(residual[src], pr_plan.alpha),
                                       out[src])]
                  /\ accum' = accum + 1
             ELSE /\ delta' = [delta EXCEPT ![src] = Frac(0, 1)]
                  /\ accum' = accum
     ELSE /\ delta' = [delta EXCEPT ![src] = Frac(0, 1)]
          /\ UNCHANGED <<residual, value, accum>>
  /\ UNCHANGED <<ssspvars, iovars>>
  /\ UNCHANGED <<pr_graph, pr_plan, vec, out, iterations, pr_pc, pr_task>>

\* PageRankDelta with sdata.value = old_residual in place of +=
PageRankDeltaAssign(src) ==
  /\ pr_pc = "PageRank_delta"
  /\ src \in pr_todo
  /\ pr_todo' = pr_todo \ {src}
  /\ IF FLess(pr_plan.tolerance, residual[src])
     THEN /\ residual' = [residual EXCEPT ![src] = Frac(0, 1)]
          /\ value' = [value EXCEPT ![src] = residual[src]]
          /\ IF out[src] > 0
             THEN /\ delta' = [delta EXCEPT ![src] =
                                 FOver(FTimes(residual[src], pr_plan.alpha),
                                       out[src])]
                  /\ accum' = accum + 1
             ELSE /\ delta' = [delta EXCEPT ![src] = Frac(0, 1)]
                  /\ accum' = accum
     ELSE /\ delta' = [delta EXCEPT ![src] = Frac(0, 1)]
          /\ UNCHANGED <<residual, value, accum>>
  /\ UNCHANGED <<ssspvars, iovars>>
  /\ UNCHANGED <<pr_graph, pr_plan, vec, out, iterations, pr_pc, pr_task>>

\* the operator of the first do_all on node src (lines 130-148)
PageRankDelta(src) ==
  /\ pr_pc = "PageRank_delta"
  /\ src \in pr_todo
  /\ pr_todo' = pr_todo \ {src}
  /\ IF FLess(pr_plan.tolerance, residual[src])
     THEN /\ residual' = [residual EXCEPT ![src] = Frac(0, 1)]
          /\ value' = [value EXCEPT ![src] = FPlus(@, residual[src])]
          /\ IF out[src] > 0
             THEN /\ delta' = [delta EXCEPT ![src] =
                                 FOver(FTimes(residual[src], pr_plan.alpha),
                                       out[src])]
                  /\ accum' = accum + 1
             ELSE /\ delta' = [delta EXCEPT ![src] = Frac(0, 1)]
                  /\ accum' = accum
     ELSE /\ delta' = [delta EXCEPT ![src] = Frac(0, 1)]
          /\ UNCHANGED <<residual, value, accum>>
  /\ UNCHANGED <<ssspvars, iovars>>
  /\ UNCHANGED <<pr_graph, pr_plan, vec, out, iterations, pr_pc, pr_task>>

\* the first do_all is over, the second starts
PageRankDeltaDone ==
  /\ pr_pc = "PageRank_delta"
  /\ pr_todo = {}
  /\ pr_pc' = "PageRank"
  /\ pr_todo' = PRNodes
  /\ UNCHANGED <<ssspvars, iovars>>
  /\ UNCHANGED <<pr_graph, pr_plan, vec, value, out, delta, residual, iterations,
                 accum, pr_task>>

\* sum of the positive delta[dest] over the entries jj..end-1 (lines 154-160)
RECURSIVE DeltaSum(_, _)
DeltaSum(jj, end) ==
  IF jj = end THEN Frac(0, 1)
  ELSE LET d == delta[PREdges[jj].dst]
       IN  IF FLess(Frac(0, 1), d) THEN FPlus(d, DeltaSum(jj + 1, end))
           ELSE DeltaSum(jj + 1, end)

\* PageRank summing the predecessors' residuals, which their tasks write in
\* the same do_all
RECURSIVE ResidualSum(_, _)
ResidualSum(jj, end) ==
  IF jj = end THEN Frac(0, 1)
  ELSE FPlus(FPlus(delta[PREdges[jj].dst], residual[PREdges[jj].dst]),
             ResidualSum(jj + 1, end))

PageRankOfResidual(src) ==
  /\ pr_pc = "PageRank"
  /\ src \in pr_todo
  /\ pr_todo' = pr_todo \ {src}
  /\ LET sum == ResidualSum(pr_edge_begin(src), pr_edge_end(src))
     IN  residual' = IF FLess(Frac(0, 1), sum)
                     THEN [residual EXCEPT ![src] = sum]
                     ELSE residual
  /\ UNCHANGED <<ssspvars, iovars>>
  /\ UNCHANGED <<pr_graph, pr_plan, vec, value, out, delta, iterations, accum,
                 pr_pc, pr_task>>

\* PageRank adding the sum to the residual in place of overwriting it
PageRankAdd(src) ==
  /\ pr_pc = "PageRank"
  /\ src \in pr_todo
  /\ pr_todo' = pr_todo \ {src}
  /\ LET sum == DeltaSum(pr_edge_begin(src), pr_edge_end(src))
     IN  residual' = IF FLess(Frac(0, 1), sum)
                     THEN [residual EXCEPT ![src] = FPlus(@, sum)]
                     ELSE residual
  /\ UNCHANGED <<ssspvars, iovars>>
  /\ UNCHANGED <<pr_graph, pr_plan, vec, value, out, delta, iterations, accum,
                 pr_pc, pr_task>>

\* the operator of the second do_all on node src (lines 152-164)
PageRank(src) ==
  /\ pr_pc = "PageRank"
  /\ src \in pr_todo
  /\ pr_todo' = pr_todo \ {src}
  /\ LET sum == DeltaSum(pr_edge_begin(src), pr_edge_end(src))
     IN  residual' = IF FLess(Frac(0, 1), sum)
                     THEN [residual EXCEPT ![src] = sum]
                     ELSE residual
  /\ UNCHANGED <<ssspvars, iovars>>
  /\ UNCHANGED <<pr_graph, pr_plan, vec, value, out, delta, iterations, accum,
                 pr_pc, pr_task>>

\* ResidualRoundEnd leaving the loop only when the maximum is reached
ResidualRoundEndMaxOnly ==
  /\ pr_pc = "PageRank"
  /\ pr_todo = {}
  /\ iterations' = iterations + 1
  /\ IF iterations' >= pr_plan.max_iterations
     THEN /\ pr_pc' = "done"
          /\ UNCHANGED <<accum, pr_todo>>
     ELSE /\ accum' = 0
          /\ pr_pc' = "PageRank_delta"
          /\ pr_todo' = PRNodes
  /\ UNCHANGED <<ssspvars, iovars>>
  /\ UNCHANGED <<pr_graph, pr_plan, vec, value, out, delta, residual, pr_task>>

\* iterations++ and the test that ends the loop (lines 172-176)
ResidualRoundEnd ==
  /\ pr_pc = "PageRank"
  /\ pr_todo = {}
  /\ iterations' = iterations + 1
  /\ IF iterations' >= pr_plan.max_iterations \/ accum = 0
     THEN /\ pr_pc' = "done"
          /\ UNCHANGED <<accum, pr_todo>>
     ELSE /\ accum' = 0
          /\ pr_pc' = "PageRank_delta"
          /\ pr_todo' = PRNodes
  /\ UNCHANGED <<ssspvars, iovars>>
  /\ UNCHANGED <<pr_graph, pr_plan, vec, value, out, delta, residual, pr_task>>

\* ---------------------------------------------------------------------------
\* ComputePRTopological (184-231)
\* ---------------------------------------------------------------------------
\* a worker starts the operator on node src: sum = 0.0 (lines 194-196)
TopologicalTake(src) ==
  /\ pr_pc = "Pagerank Topological"
  /\ src \in pr_todo
  /\ BagCardinality(pr_task) < NumThreads
  /\ pr_todo' = pr_todo \ {src}
  /\ pr_task' = pr_task (+) SetToBag({[src |-> src, jj |-> pr_edge_begin(src),
                                       sum |-> Frac(0, 1)]})
  /\ UNCHANGED <<ssspvars, iovars>>
  /\ UNCHANGED <<pr_graph, pr_plan, vec, value, out, delta, residual, iterations,
                 accum, pr_pc>>

\* sum += ddata.value / ddata.out for the entry jj (lines 198-202); ddata is
\* read while other workers write their nodes
TopologicalRead(tk) ==
  /\ pr_pc = "Pagerank Topological"
  /\ tk.jj < pr_edge_end(tk.src)
  /\ LET dest == PREdges[tk.jj].dst
     IN  pr_task' = (pr_task (-) SetToBag({tk})) (+)
           SetToBag({[tk EXCEPT !.jj = tk.jj + 1,
                                !.sum = FPlus(tk.sum,
                                              FOver(value[dest], out[dest]))]})
  /\ UNCHANGED <<ssspvars, iovars>>
  /\ UNCHANGED <<pr_graph, pr_plan, vec, value, out, delta, residual, iterations,
                 accum, pr_pc, pr_todo>>

\* base_score (line 189)
base_score == FOver(FMinus(Frac(1, 1), pr_plan.alpha), pr_graph.size)

\* TopologicalWrite storing the rank before the loop over the entries is over
TopologicalWriteEarly(tk) ==
  /\ pr_pc = "Pagerank Topological"
  /\ LET new == FPlus(FTimes(tk.sum, pr_plan.alpha), base_score)
         diff == fabs(FMinus(new, value[tk.src]))
     IN  /\ value' = [value EXCEPT ![tk.src] = new]
         /\ accum' = FPlus(accum, diff)
  /\ pr_task' = pr_task (-) SetToBag({tk})
  /\ UNCHANGED <<ssspvars, iovars>>
  /\ UNCHANGED <<pr_graph, pr_plan, vec, out, delta, residual, iterations, pr_pc,
                 pr_todo>>

\* value, diff, the store and accum += diff (lines 206-214)
TopologicalWrite(tk) ==
  /\ pr_pc = "Pagerank Topological"
  /\ tk.jj = pr_edge_end(tk.src)
  /\ LET new == FPlus(FTimes(tk.sum, pr_plan.alpha), base_score)
         diff == fabs(FMinus(new, value[tk.src]))
     IN  /\ value' = [value EXCEPT ![tk.src] = new]
         /\ accum' = FPlus(accum, diff)
  /\ pr_task' = pr_task (-) SetToBag({tk})
  /\ UNCHANGED <<ssspvars, iovars>>
  /\ UNCHANGED <<pr_graph, pr_plan, vec, out, delta, residual, iterations, pr_pc,
                 pr_todo>>

\* TopologicalRoundEnd with the tolerance test reversed
TopologicalRoundEndReversed ==
  /\ pr_pc = "Pagerank Topological"
  /\ pr_todo = {}
  /\ pr_task = EmptyBag
  /\ iterations' = iterations + 1
  /\ IF \/ FLessEq(pr_plan.tolerance, accum)
        \/ iterations' >= pr_plan.max_iterations
     THEN /\ pr_pc' = "done"
          /\ UNCHANGED <<accum, pr_todo>>
     ELSE /\ accum' = Frac(0, 1)
          /\ pr_todo' = PRNodes
          /\ pr_pc' = pr_pc
  /\ UNCHANGED <<ssspvars, iovars>>
  /\ UNCHANGED <<pr_graph, pr_plan, vec, value, out, delta, residual, pr_task>>

\* iteration += 1 and the test that ends the loop (lines 222-227)
TopologicalRoundEnd ==
  /\ pr_pc = "Pagerank Topological"
  /\ pr_todo = {}
  /\ pr_task = EmptyBag
  /\ iterations' = iterations + 1
  /\ IF \/ FLessEq(accum, pr_plan.tolerance)
        \/ iterations' >= pr_plan.max_iterations
     THEN /\ pr_pc' = "done"
          /\ UNCHANGED <<accum, pr_todo>>
     ELSE /\ accum' = Frac(0, 1)
          /\ pr_todo' = PRNodes
          /\ pr_pc' = pr_pc
  /\ UNCHANGED <<ssspvars, iovars>>
  /\ UNCHANGED <<pr_graph, pr_plan, vec, value, out, delta, residual, pr_task>>

PagerankNext ==
  \/ InitNodeDataTopological
  \/ InitNodeDataResidual
  \/ InitDegVec
  \/ \E i \in 1..Len(PREdges) : ComputeOutDeg(i)
  \/ CopyDeg
  \/ \E src \in PRNodes : PageRankDelta(src)
  \/ PageRankDeltaDone
  \/ \E src \in PRNodes : PageRank(src)
  \/ ResidualRoundEnd
  \/ \E src \in PRNodes : TopologicalTake(src)
  \/ \E tk \in BagToSet(pr_task) : TopologicalRead(tk)
  \/ \E tk \in BagToSet(pr_task) : TopologicalWrite(tk)
  \/ TopologicalRoundEnd

PagerankSpec == PagerankInit /\ [][PagerankNext]_vars

\* ---------------------------------------------------------------------------
\* LC_InOut_Graph: out-edges of the base graph, in-edges in symmetric mode
\* (the out-edge arrays themselves) and in asymmetric mode (inGraph)
\* ---------------------------------------------------------------------------
\* edge data are 0..MaxData
MaxData == 1

EdgeData == 0..MaxData

\* an entry of a node's edge array: EdgeSortValue (dst, data)
EdgeSortValue(dst, data) == [dst |-> dst, data |-> data]

\* 0-1, 1-2 and the self-loop 1-1, every edge stored in both directions
SymmetricGraph ==
  [n \in 0..2 |->
     CASE n = 0 -> <<EdgeSortValue(1, 1)>>
       [] n = 1 -> <<EdgeSortValue(2, 0), EdgeSortValue(1, 0),
                     EdgeSortValue(0, 1)>>
       [] n = 2 -> <<EdgeSortValue(1, 0)>>]

\* 0->2, 0->1 and the self-loop 2->2
DirectedGraph ==
  [n \in 0..2 |->
     CASE n = 0 -> <<EdgeSortValue(2, 0), EdgeSortValue(1, 1)>>
       [] n = 1 -> << >>
       [] n = 2 -> <<EdgeSortValue(2, 1)>>]

\* the transpose of DirectedGraph, the data copied
TransposedGraph ==
  [n \in 0..2 |->
     CASE n = 0 -> << >>
       [] n = 1 -> <<EdgeSortValue(0, 1)>>
       [] n = 2 -> <<EdgeSortValue(2, 1), EdgeSortValue(0, 0)>>]

\* the in-graph of a graph that is not asymmetric holds no edge
NoInEdges == [n \in 0..2 |-> << >>]

GraphNodes == DOMAIN outGraph

\* LC_InOut_Graph() followed by reading a symmetric graph, or by
\* createAsymmetric() and reading a graph with its transpose
InOutInit ==
  /\ \/ asymmetric = FALSE /\ outGraph = SymmetricGraph /\ inGraph = NoInEdges
     \/ asymmetric = TRUE /\ outGraph = DirectedGraph
        /\ inGraph = TransposedGraph
  /\ called = [op |-> "none"]
  /\ SsspUnused
  /\ PagerankUnused

\* in_edge_iterator: type 0 holds an edge_iterator of the base graph, type 1
\* one of inGraph; an edge iterator is a node's array and a position in it
in_edge_iterator(type, N, pos) == [type |-> type, N |-> N, pos |-> pos]

raw_begin(g, N) == 1
raw_end(g, N) == Len(g[N]) + 1

in_edge_begin(N) ==
  IF ~asymmetric THEN in_edge_iterator(0, N, raw_begin(outGraph, N))
  ELSE in_edge_iterator(1, N, raw_begin(inGraph, N))

in_edge_end(N) ==
  IF ~asymmetric THEN in_edge_iterator(0, N, raw_end(outGraph, N))
  ELSE in_edge_iterator(1, N, raw_end(inGraph, N))

increment(ni) == [ni EXCEPT !.pos = @ + 1]

equal(ni, o) == ni.type = o.type /\ ni.N = o.N /\ ni.pos = o.pos

getInEdgeData(ni) ==
  IF ni.type = 0 THEN outGraph[ni.N][ni.pos].data
  ELSE inGraph[ni.N][ni.pos].data

\* getInEdgeDst returning the node the iterator belongs to
getInEdgeDstSelf(ni) == ni.N

getInEdgeDst(ni) ==
  IF ni.type = 0 THEN outGraph[ni.N][ni.pos].dst
  ELSE inGraph[ni.N][ni.pos].dst

\* the entries seen by for (ni = in_edge_begin(N); ni != in_edge_end(N); ++ni)
RECURSIVE Visit(_, _)
Visit(ni, end) ==
  IF equal(ni, end) THEN << >>
  ELSE <<EdgeSortValue(getInEdgeDst(ni), getInEdgeData(ni))>>
         \o Visit(increment(ni), end)

\* a caller iterates the in-edges of N
in_edges(N) ==
  /\ called' = [op |-> "in_edges", N |-> N,
                seen |-> Visit(in_edge_begin(N), in_edge_end(N))]
  /\ UNCHANGED <<ssspvars, prvars>>
  /\ UNCHANGED <<asymmetric, outGraph, inGraph>>

\* a caller assigns d through getEdgeData(ii), ii the pos-th out-edge of N
getEdgeData(N, pos, d) ==
  /\ pos \in 1..Len(outGraph[N])
  /\ outGraph' = [outGraph EXCEPT ![N][pos].data = d]
  /\ called' = [op |-> "getEdgeData", N |-> N, pos |-> pos, d |-> d]
  /\ UNCHANGED <<ssspvars, prvars>>
  /\ UNCHANGED <<asymmetric, inGraph>>

\* SetInEdgeData taking every iterator for one of the base graph
SetInEdgeDataType0(N, pos, d) ==
  LET ni == [in_edge_begin(N) EXCEPT !.pos = pos]
  IN  /\ pos >= in_edge_begin(N).pos
      /\ pos < in_edge_end(N).pos
      /\ outGraph' = IF ni.pos <= Len(outGraph[ni.N])
                     THEN [outGraph EXCEPT ![ni.N][ni.pos].data = d]
                     ELSE outGraph
      /\ UNCHANGED inGraph
      /\ called' = [op |-> "getInEdgeData", N |-> N, pos |-> pos, d |-> d]
      /\ UNCHANGED <<ssspvars, prvars>>
      /\ UNCHANGED asymmetric

\* a caller assigns d through getInEdgeData(ni), ni the pos-th in-edge of N
SetInEdgeData(N, pos, d) ==
  LET ni == [in_edge_begin(N) EXCEPT !.pos = pos]
  IN  /\ pos >= in_edge_begin(N).pos
      /\ pos < in_edge_end(N).pos
      /\ IF ni.type = 0
         THEN /\ outGraph' = [outGraph EXCEPT ![ni.N][ni.pos].data = d]
              /\ UNCHANGED inGraph
         ELSE /\ inGraph' = [inGraph EXCEPT ![ni.N][ni.pos].data = d]
              /\ UNCHANGED outGraph
      /\ called' = [op |-> "getInEdgeData", N |-> N, pos |-> pos, d |-> d]
      /\ UNCHANGED <<ssspvars, prvars>>
      /\ UNCHANGED asymmetric

\* the comparators of the model: std::less over the data, the default of
\* sortInEdgesByEdgeData; e1.dst < e2.dst of sortInEdgesByDst; and, as the
\* caller's comparator of sortInEdges, the descending order of destinations
DataComparators == {"data less"}
Comparators == {"dst greater"}

comp(c, e1, e2) ==
  CASE c = "data less" -> e1.data < e2.data
    [] c = "dst less" -> e1.dst < e2.dst
    [] c = "dst greater" -> e1.dst > e2.dst

\* the orders in which n positions can be taken
Orders(n) ==
  {p \in [1..n -> 1..n] : \A i, j \in 1..n : i # j => p[i] # p[j]}

\* the entries of s taken in each of the Orders
Reorderings(s) == {[i \in 1..Len(s) |-> s[p[i]]] : p \in Orders(Len(s))}

Sorted(c, t) == \A i, j \in 1..Len(t) : i < j => ~comp(c, t[j], t[i])

\* the possible results of std::sort, which is not stable
std_sort(s, c) == {t \in Reorderings(s) : Sorted(c, t)}

\* SortEdgeArray always sorting the array of the base graph
SortEdgeArrayOut(N, c) ==
  /\ \E t \in std_sort(outGraph[N], c) :
       outGraph' = [outGraph EXCEPT ![N] = t]
  /\ UNCHANGED inGraph

\* the body shared by the three sort routines: std::sort on the edge array of
\* N in the base graph when not asymmetric, in inGraph otherwise
SortEdgeArray(N, c) ==
  IF ~asymmetric
  THEN /\ \E t \in std_sort(outGraph[N], c) :
            outGraph' = [outGraph EXCEPT ![N] = t]
       /\ UNCHANGED inGraph
  ELSE /\ \E t \in std_sort(inGraph[N], c) :
            inGraph' = [inGraph EXCEPT ![N] = t]
       /\ UNCHANGED outGraph

sortInEdgesByEdgeData(N, c) ==
  /\ SortEdgeArray(N, c)
  /\ called' = [op |-> "sortInEdgesByEdgeData", N |-> N, comp |-> c]
  /\ UNCHANGED <<ssspvars, prvars>>
  /\ UNCHANGED asymmetric

sortInEdges(N, c) ==
  /\ SortEdgeArray(N, c)
  /\ called' = [op |-> "sortInEdges", N |-> N, comp |-> c]
  /\ UNCHANGED <<ssspvars, prvars>>
  /\ UNCHANGED asymmetric

sortInEdgesByDst(N) ==
  /\ SortEdgeArray(N, "dst less")
  /\ called' = [op |-> "sortInEdgesByDst", N |-> N, comp |-> "dst less"]
  /\ UNCHANGED <<ssspvars, prvars>>
  /\ UNCHANGED asymmetric

InOutNext ==
  \/ \E N \in GraphNodes : in_edges(N)
  \/ \E N \in GraphNodes : \E pos \in 1..Len(outGraph[N]), d \in EdgeData :
       getEdgeData(N, pos, d)
  \/ \E N \in GraphNodes :
       \E pos \in 1..Len(outGraph[N]) \cup 1..Len(inGraph[N]), d \in EdgeData :
         SetInEdgeData(N, pos, d)
  \/ \E N \in GraphNodes, c \in DataComparators : sortInEdgesByEdgeData(N, c)
  \/ \E N \in GraphNodes, c \in Comparators : sortInEdges(N, c)
  \/ \E N \in GraphNodes : sortInEdgesByDst(N)

InOutSpec == InOutInit /\ [][InOutNext]_vars

\* ---------------------------------------------------------------------------
\* Properties
\* ---------------------------------------------------------------------------
\* SSSP has returned success
Solved == pc = "returned" /\ ret = Result("Success")

\* the distances SSSP leaves before it dispatches
InitialDistances ==
  [n \in Nodes |-> IF n = start_node THEN 0 ELSE kDistanceInfinity]

\* the nodes reachable from the nodes of S along forward edges
RECURSIVE ReachFrom(_)
ReachFrom(S) ==
  LET T == S \cup {Edges[i].dst : i \in {j \in 1..Len(Edges) : Edges[j].src \in S}}
  IN  IF T = S THEN S ELSE ReachFrom(T)

SetMin(S) == CHOOSE x \in S : \A y \in S : x <= y

\* the least path weights from start_node, by repeated relaxation of all edges
RelaxAll(d) ==
  [v \in Nodes |->
     SetMin({d[v]} \cup {d[Edges[i].src] + Edges[i].w :
                           i \in {j \in 1..Len(Edges) :
                                    /\ Edges[j].dst = v
                                    /\ d[Edges[j].src] < kDistanceInfinity}})]

RECURSIVE LeastFixpoint(_)
LeastFixpoint(d) == IF RelaxAll(d) = d THEN d ELSE LeastFixpoint(RelaxAll(d))

ShortestDistances == LeastFixpoint(InitialDistances)

\* C1: when SSSP has returned success, under every strategy, every edge
\* (u,v,w) whose source is below infinity satisfies dist[v] <= dist[u] + w.
RelaxationClosure ==
  Solved =>
    \A i \in 1..Len(Edges) :
      dist[Edges[i].src] < kDistanceInfinity =>
        dist[Edges[i].dst] <= dist[Edges[i].src] + Edges[i].w

\* a parallel delta-step run on the shortcut graph has returned: node 2 was
\* reached over the long edge or through node 1, node 3 through node 2
RelaxationClosureWitness ==
  /\ Solved
  /\ graph = Shortcut
  /\ start_node = 0
  /\ plan.algorithm = "kDeltaStep"
  /\ dist[3] < kDistanceInfinity

\* C2: every strategy ends with the distance array the serial Dijkstra
\* strategy computes on the same graph and source; on the diamond with
\* source 0 that array is [0,1,4,3].
CrossStrategyAgreement ==
  Solved =>
    /\ dist = DijkstraAlgo(FALSE, InitialDistances,
                           ReqPushWrap(<< >>, start_node, 0))
    /\ (graph = Diamond /\ start_node = 0 =>
          dist = (0 :> 0 @@ 1 :> 1 @@ 2 :> 4 @@ 3 :> 3))

\* a strategy other than Dijkstra has returned on the diamond
CrossStrategyAgreementWitness ==
  /\ Solved
  /\ graph = Diamond
  /\ start_node = 0
  /\ plan.algorithm = "kTopological"
  /\ dist[3] = 3

\* C3: once SSSP has initialised the distances, no step raises a node's
\* distance: every step leaves each distance lower or unchanged.
Monotonicity ==
  [][pc # "start" => \A n \in Nodes : dist'[n] <= dist[n]]_vars

\* a worker is about to apply atomicMin with a candidate above the
\* destination's current, already finite, distance
MonotonicityWitness ==
  /\ pc = "run"
  /\ \E tk \in Running :
       /\ tk.ph = "min"
       /\ dist[Edges[tk.ii].dst] < kDistanceInfinity
       /\ tk.new_dist > dist[Edges[tk.ii].dst]

\* C4: when SSSP has returned success the source's distance is 0 and a node
\* holds the sentinel exactly when it is not reachable from the source.
SourceZeroUnreachedInfinity ==
  Solved =>
    /\ dist[start_node] = 0
    /\ \A n \in Nodes :
         dist[n] = kDistanceInfinity <=> n \notin ReachFrom({start_node})

\* the 3-node graph with the edge 0->1 and the isolated node 2, source 0
SourceZeroUnreachedInfinityWitness ==
  /\ Solved
  /\ graph = Isolated
  /\ start_node = 0
  /\ dist[1] < kDistanceInfinity
  /\ dist[2] = kDistanceInfinity

\* C5: with an in-range source, every strategy eventually returns, with the
\* worklist (delta-step, serial delta, Dijkstra) empty, no worker busy and
\* the change flag of the last topological round false.
Terminated ==
  /\ Solved
  /\ wl = << >>
  /\ AllIdle
  /\ ~changed

Termination ==
  (pc = "start" /\ start_node < graph.size /\ plan.algorithm \in Algorithms)
    ~> Terminated

\* a topological-tile run has returned on the graph with the cycle 0->3->0
TerminationWitness ==
  /\ Terminated
  /\ plan.algorithm = "kTopologicalTile"
  /\ graph = Cyclic
  /\ start_node = 3
  /\ dist[1] < kDistanceInfinity

\* request q[i] stands for node v at distance d
RequestFor(q, v, d) == {i \in 1..Len(q) : q[i].src = v /\ q[i].dist = d}

\* the worklist q holds a request for v at distance d: an UpdateRequest, or
\* edge tiles that cover every outgoing edge of v
Enqueued(q, v, d) ==
  IF IsTiled
  THEN \A e \in edge_begin(v)..(edge_end(v) - 1) :
         \E i \in RequestFor(q, v, d) :
           edgeRange(TRUE, q[i])[1] <= e /\ e < edgeRange(TRUE, q[i])[2]
  ELSE RequestFor(q, v, d) # {}

\* the nodes of the input graphs
AllNodes == UNION {0..(g.size - 1) : g \in Graphs}

\* every outgoing edge (v,x,w) has dist[x] <= dist[v] + w
Propagated(v) ==
  \A i \in 1..Len(Edges) :
    Edges[i].src = v => dist[Edges[i].dst] <= dist[v] + Edges[i].w

\* C6: in delta-stepping, a step that lowers dist[v] to d leaves a request
\* for v at distance d in the worklist, and eventually every outgoing edge
\* (v,x,w) has dist[x] <= d + w. No distance rises, so the bound is stated
\* for the value dist[v] holds when it is met: it is then met for every
\* value dist[v] held before.
Repropagation ==
  /\ [][pc = "run" /\ plan.algorithm \in ParallelDelta =>
         \A v \in Nodes :
           dist'[v] < dist[v] => Enqueued(wl', v, dist'[v])]_vars
  /\ \A v \in AllNodes :
       (/\ pc = "run"
        /\ plan.algorithm \in ParallelDelta
        /\ v \in Nodes
        /\ dist[v] < kDistanceInfinity)
         ~> (v \in Nodes /\ Propagated(v))

\* node 2 of the shortcut graph was lowered from 4 to 2 through node 1, its
\* request at distance 2 is pending, and another worker still holds the
\* candidate 4 for node 2
RepropagationWitness ==
  /\ pc = "run"
  /\ plan.algorithm = "kDeltaStep"
  /\ graph = Shortcut
  /\ dist[2] = 2
  /\ RequestFor(wl, 2, 2) # {}
  /\ \E tk \in Running :
       /\ tk.ph = "min"
       /\ Edges[tk.ii].dst = 2
       /\ tk.new_dist = 4

\* C7: the distances a parallel strategy returns are a function of the graph
\* and the source alone: whatever the interleaving and the order of the
\* worklist, they are the least path weights.
Determinism ==
  Solved /\ plan.algorithm \in ParallelDelta \cup Topological =>
    dist = ShortestDistances

\* a topological run on the shortcut graph has returned
DeterminismWitness ==
  /\ Solved
  /\ plan.algorithm = "kTopological"
  /\ graph = Shortcut
  /\ start_node = 0
  /\ dist[2] = 2
  /\ dist[3] = 3

\* C8: with a start node at or beyond the node count, SSSP returns
\* InvalidArgument and the distance column is as it was before the call: no
\* reset, no relaxation.
OutOfRangeStart ==
  start_node >= graph.size =>
    /\ dist = PriorColumn(graph)
    /\ Quiescent
    /\ pc \in {"start", "returned"}
    /\ (pc = "returned" => ret = Result("InvalidArgument"))

OutOfRangeStartWitness ==
  /\ start_node >= graph.size
  /\ pc = "returned"
  /\ ret = Result("InvalidArgument")
  /\ plan.algorithm = "kDeltaStep"

\* C9: the validator returns AssertionFailed when the start node's distance
\* is not 0 or some edge (u,v,w) has dist[v] > dist[u] + w, success
\* otherwise, and success on what a strategy has returned.
ValidatorVerdict ==
  pc = "validated" =>
    /\ ret = Result(IF \/ dist[start_node] # 0
                       \/ \E i \in 1..Len(Edges) :
                            dist[Edges[i].dst] >
                              dist[Edges[i].src] + Edges[i].w
                    THEN "AssertionFailed" ELSE "Success")
    /\ (plan.algorithm \in Algorithms => ret = Result("Success"))

\* a column with the start node at 0 was rejected for an edge
ValidatorVerdictWitness ==
  /\ pc = "validated"
  /\ ret = Result("AssertionFailed")
  /\ dist[start_node] = 0
  /\ graph = Diamond

\* the sum of the distances of the nodes of S, in halves, hi unbounded
RECURSIVE SetSum(_)
SetSum(S) ==
  IF S = {} THEN Halves(0)
  ELSE LET n == CHOOSE x \in S : TRUE
           r == SetSum(S \ {n})
           lo == r.lo + (dist[n] % Half)
       IN  [hi |-> r.hi + (dist[n] \div Half) + (lo \div Half), lo |-> lo % Half]

\* the nodes below the sentinel
Reached == {n \in Nodes : dist[n] < kDistanceInfinity}

\* C10: the statistics report the number of nodes below the sentinel, the
\* largest of their distances and the sum of their distances divided by
\* their number; on the 3-node graph with the edge 0->1 solved from source 0
\* the reached count is 2.
StatisticsReport ==
  pc = "reported" =>
    /\ ret.n_reached_nodes = Cardinality(Reached)
    /\ (Reached # {} =>
          /\ \E n \in Reached : ret.max_distance = dist[n]
          /\ \A n \in Reached : ret.max_distance >= dist[n])
    /\ ret.average_visited_distance =
         Ratio(SetSum(Reached), Cardinality(Reached))
    /\ (graph = Isolated /\ start_node = 0 /\ plan.algorithm \in Algorithms =>
          ret.n_reached_nodes = 2)

\* the part of C10 the code keeps: the count, the maximum and the example
StatisticsCountAndMax ==
  pc = "reported" =>
    /\ ret.n_reached_nodes = Cardinality(Reached)
    /\ (Reached # {} =>
          /\ \E n \in Reached : ret.max_distance = dist[n]
          /\ \A n \in Reached : ret.max_distance >= dist[n])
    /\ ret.average_visited_distance =
         Ratio([SetSum(Reached) EXCEPT !.hi = @ % Half], Cardinality(Reached))
    /\ (graph = Isolated /\ start_node = 0 /\ plan.algorithm \in Algorithms =>
          ret.n_reached_nodes = 2)

\* ---------------------------------------------------------------------------
\* PageRank properties
\* ---------------------------------------------------------------------------
PagerankDone == pr_pc = "done"

\* C11: PageRank round bound -- for both strategies and for every configured
\* maximum iteration count, 0 included, the number of rounds executed never
\* exceeds the configured maximum.
RoundBound == iterations <= pr_plan.max_iterations

\* the part of C11 the code keeps: the bound holds for a maximum of at least 1,
\* and with a maximum of 0 exactly one round is executed
RoundBoundFromOne ==
  /\ (pr_plan.max_iterations >= 1 => iterations <= pr_plan.max_iterations)
  /\ (pr_plan.max_iterations = 0 => iterations <= 1)
  /\ (PagerankDone => iterations >= 1)

PullTopological == pr_plan.algorithm = kPullTopological
PullResidual == pr_plan.algorithm = kPullResidual

\* C12 as stated: in the round after which ComputePRTopological leaves its
\* loop, the sum over all nodes of |new rank - old rank| accumulated in that
\* round is <= the configured tolerance.
StoppingRoundDiff ==
  PagerankDone /\ PullTopological => FLessEq(accum, pr_plan.tolerance)

\* C12: topological PageRank stopping round -- in the round after which
\* ComputePRTopological leaves its loop, the sum over all nodes of
\* |new rank - old rank| accumulated in that round is <= the configured
\* tolerance, unless the round count has reached the configured maximum.
StoppingRoundDiffOrMaximum ==
  PagerankDone /\ PullTopological /\ iterations < pr_plan.max_iterations
    => FLessEq(accum, pr_plan.tolerance)

\* the loop was left below the maximum after a round that changed a rank
StoppingRoundDiffOrMaximumWitness ==
  /\ PagerankDone
  /\ PullTopological
  /\ iterations < pr_plan.max_iterations
  /\ FLess(Frac(0, 1), accum)
  /\ FLessEq(accum, pr_plan.tolerance)

\* a round has just ended: the loop was left, or the next round has not begun
RoundOver ==
  \/ PagerankDone
  \/ /\ iterations >= 1
     /\ pr_pc \in {"Pagerank Topological", "PageRank_delta"}
     /\ pr_todo = PRNodes
     /\ pr_task = EmptyBag

\* the sum of the ranks of the nodes of S
RECURSIVE Mass(_)
Mass(S) ==
  IF S = {} THEN Frac(0, 1)
  ELSE LET n == CHOOSE x \in S : TRUE IN FPlus(value[n], Mass(S \ {n}))

\* C13: PageRank mass bound -- after every round of either strategy, under
\* every interleaving of the per-node tasks, the sum of all node ranks is
\* <= 1, with equality only when no node has zero out-degree.
MassBound ==
  RoundOver =>
    /\ FLessEq(Mass(PRNodes), Frac(1, 1))
    /\ (Mass(PRNodes) = Frac(1, 1) => \A n \in PRNodes : out[n] > 0)

\* the topological strategy alone, with one worker taking the nodes in any
\* order, already exceeds mass 1
MassBoundTopological ==
  RoundOver /\ PullTopological => FLessEq(Mass(PRNodes), Frac(1, 1))

\* C14: PageRank non-negativity -- with alpha in [0,1], a non-negative
\* tolerance and a non-negative initial residual, every node's rank is
\* non-negative after initialisation and after every round of both
\* strategies (here: after every step), and in the residual strategy a
\* node's rank never decreases.
RankNonNegative ==
  [][/\ (pr_pc' # "start" =>
           \A n \in PRNodes : FLessEq(Frac(0, 1), value'[n]))
     /\ (PullResidual /\ pr_pc # "start" =>
           \A n \in PRNodes : FLessEq(value[n], value'[n]))]_vars

\* the residual strategy has raised a rank in two rounds
RankNonNegativeWitness ==
  /\ PullResidual
  /\ iterations >= 2
  /\ \E n \in PRNodes : FLess(pr_plan.initial_residual, value[n])

\* node 0 and node 1 of the 2-cycle are within eps of rank 1/2
NearHalf(eps) ==
  \A n \in PRNodes : FLessEq(fabs(FMinus(value[n], Frac(1, 2))), eps)

TwoCycleRun == pr_graph = TwoCycle /\ pr_plan.alpha = Frac(17, 20)

\* C15: on the 2-cycle graph (0->1, 1->0) with alpha = 0.85, both the
\* topological and the residual strategy end with rank 0.5 (within
\* tolerance) at node 0 and at node 1.
TwoCycleHalf ==
  PagerankDone /\ TwoCycleRun => NearHalf(pr_plan.tolerance)

\* the residual loop was left because no node was active in its last round
NoActiveNode == PullResidual /\ accum = 0

\* the part of C15 the code keeps: the topological strategy ends with rank
\* exactly 0.5 at both nodes; the residual strategy, started with initial
\* residual (1 - alpha)/2 = 0.075, ends with both ranks within
\* tolerance/(1 - alpha) of 0.5 when it leaves its loop because no node was
\* active; started with initial residual r it never exceeds r/(1 - alpha)
TwoCycleHalfResidual ==
  PagerankDone /\ TwoCycleRun =>
    /\ (PullTopological => NearHalf(Frac(0, 1)))
    /\ (NoActiveNode /\ pr_plan.initial_residual = Frac(3, 40) =>
          NearHalf(FTimes(pr_plan.tolerance, Frac(20, 3))))
    /\ (PullResidual =>
          \A n \in PRNodes :
            FLessEq(value[n], FTimes(pr_plan.initial_residual, Frac(20, 3))))

\* the nodes without outgoing edge in the original graph: no entry of the
\* pull graph names them
DanglingNodes ==
  {n \in PRNodes : \A i \in 1..Len(PREdges) : PREdges[i].dst # n}

\* the sum of the second do_all when the dangling nodes are left out
RECURSIVE DeltaSumOthers(_, _)
DeltaSumOthers(jj, end) ==
  IF jj = end THEN Frac(0, 1)
  ELSE LET d == IF PREdges[jj].dst \in DanglingNodes THEN Frac(0, 1)
                ELSE delta[PREdges[jj].dst]
       IN  IF FLess(Frac(0, 1), d) THEN FPlus(d, DeltaSumOthers(jj + 1, end))
           ELSE DeltaSumOthers(jj + 1, end)

\* the first do_all has just run on node n
DeltaStepOn(n) ==
  pr_pc = "PageRank_delta" /\ n \in pr_todo /\ n \notin pr_todo'

\* the second do_all has just run on node n
ResidualStepOn(n) ==
  pr_pc = "PageRank" /\ n \in pr_todo /\ n \notin pr_todo'

\* C16: dangling node in residual PageRank -- a node whose out-degree is 0
\* adds its above-tolerance residual to its rank and zeroes the residual,
\* but its delta is 0 after phase 1 of every round, it is never counted as
\* active, and no other node's residual ever receives a contribution from
\* it.
DanglingNode ==
  [][PullResidual =>
       /\ \A n \in DanglingNodes :
            DeltaStepOn(n) =>
              /\ delta'[n] = Frac(0, 1)
              /\ accum' = accum
              /\ (FLess(pr_plan.tolerance, residual[n]) =>
                    /\ value'[n] = FPlus(value[n], residual[n])
                    /\ residual'[n] = Frac(0, 1))
       /\ (pr_pc' \in {"PageRank", "done"} =>
             \A n \in DanglingNodes : delta'[n] = Frac(0, 1))
       /\ \A n \in PRNodes :
            ResidualStepOn(n) =>
              LET sum == DeltaSumOthers(pr_edge_begin(n), pr_edge_end(n))
              IN  residual'[n] =
                    IF FLess(Frac(0, 1), sum) THEN sum ELSE residual[n]]_vars

\* a dangling node has absorbed its residual in a round in which another
\* node was active
DanglingNodeWitness ==
  /\ PullResidual
  /\ pr_pc = "PageRank"
  /\ accum > 0
  /\ \E n \in DanglingNodes :
       /\ FLess(Frac(0, 1), value[n])
       /\ delta[n] = Frac(0, 1)
       /\ \E p \in PRNodes : p # n /\ FLess(Frac(0, 1), delta[p])

\* ---------------------------------------------------------------------------
\* LC_InOut_Graph properties
\* ---------------------------------------------------------------------------
\* the entries seen by iterating the out-edges of N in the base graph
edges(N) == outGraph[N]

\* C17: symmetric mode of the in/out-edge adapter -- when the graph is not
\* asymmetric, iterating from in_edge_begin(v) to in_edge_end(v) visits
\* exactly the same entries, in the same order, as iterating the out-edges of
\* v, and getInEdgeDst / getInEdgeData on each position return the
\* destination and data of the corresponding out-edge.
SymmetricInEdges ==
  ~asymmetric /\ called.op # "none" =>
    /\ \A v \in GraphNodes :
         /\ Visit(in_edge_begin(v), in_edge_end(v)) = edges(v)
         /\ \A pos \in 1..Len(edges(v)) :
              LET ni == [in_edge_begin(v) EXCEPT !.pos = pos]
              IN  /\ getInEdgeDst(ni) = edges(v)[pos].dst
                  /\ getInEdgeData(ni) = edges(v)[pos].data
    /\ (called.op = "in_edges" => called.seen = edges(called.N))

\* a caller has iterated the in-edges of a node whose edge array was
\* rewritten or reordered before
SymmetricInEdgesWitness ==
  /\ ~asymmetric
  /\ called.op = "in_edges"
  /\ Len(called.seen) >= 2
  /\ called.seen # SymmetricGraph[called.N]

\* the arrays the in-edge iterators walk
InArray == IF asymmetric THEN inGraph ELSE outGraph

\* the positions of the entries of array s that name node n
EntriesTo(s, n) == {j \in 1..Len(s) : s[j].dst = n}

SortCalled == {"sortInEdgesByDst", "sortInEdges", "sortInEdgesByEdgeData"}

\* what every sort of the in-edges of N does: the edge arrays of the other
\* nodes are unchanged and the in-edges of N are reordered by the comparator
SortsInEdges(N, c) ==
  /\ \A m \in GraphNodes \ {N} :
       outGraph'[m] = outGraph[m] /\ InArray'[m] = InArray[m]
  /\ InArray'[N] \in Reorderings(InArray[N])
  /\ Sorted(c, InArray'[N])
  /\ (called'.op = "sortInEdgesByDst" =>
        \A i, j \in 1..Len(InArray'[N]) :
          i < j => InArray'[N][i].dst <= InArray'[N][j].dst)

WorklistBased == plan.algorithm \in ParallelDelta \cup SerialDelta \cup Dijkstra

\* the request at position i records a distance above its node's current one
Stale(i) == dist[wl[i].src] < wl[i].dist

\* this step takes the request at position i off the worklist: a parallel
\* worker removes it; a serial strategy removes it and appends what its
\* relaxations push
Dequeues(i) ==
  /\ pc = "run"
  /\ Len(wl') >= Len(wl) - 1
  /\ IF plan.algorithm \in ParallelDelta
     THEN wl' = RemoveAt(wl, i)
     ELSE /\ <<dist', wl'>> # <<dist, wl>>
          /\ SubSeq(wl', 1, Len(wl) - 1) = RemoveAt(wl, i)

\* C20: stale requests -- in every worklist-based strategy (delta-step,
\* serial-delta, Dijkstra and their tiled forms) a dequeued request (u,d)
\* relaxes edges only if d equals u's current distance; every pending
\* request satisfies dist[u] <= d, and a request with dist[u] < d is dropped
\* without changing any node's distance and without enqueuing any request.
StaleRequests ==
  [][WorklistBased =>
       /\ \A i \in 1..Len(wl') : dist'[wl'[i].src] <= wl'[i].dist
       /\ \A i \in 1..Len(wl) :
            Dequeues(i) =>
              /\ (Stale(i) =>
                    dist' = dist /\ wl' = RemoveAt(wl, i) /\ task' = task)
              /\ (dist' # dist \/ wl' # RemoveAt(wl, i) \/ task' # task =>
                    dist[wl[i].src] = wl[i].dist)]_vars

\* a request is pending whose node has been lowered since it was pushed
StaleRequestsWitness ==
  /\ WorklistBased
  /\ pc = "run"
  /\ \E i \in 1..Len(wl) : Stale(i)

\* ---------------------------------------------------------------------------
\* SSSP: candidates, buckets, rounds, plan validation
\* ---------------------------------------------------------------------------
\* the candidates d + w the edges of request item offer to node v
Candidates(item, v) ==
  {item.dist + Edges[e].w :
     e \in {k \in edgeRange(IsTiled, item)[1]..(edgeRange(IsTiled, item)[2] - 1) :
              Edges[k].dst = v}}

\* a serial strategy has processed the request at position i: every node
\* holds the least of its distance and the candidates d + w offered to it
SerialCandidates(i) ==
  \A v \in Nodes : dist'[v] = SetMin({dist[v]} \cup Candidates(wl[i], v))

\* C21: candidate distance -- when a non-stale request (u,d) is processed,
\* the candidate offered to each destination v of an outgoing edge (u,v,w)
\* is exactly d + w, in the parallel delta-step strategy as well as in
\* serial-delta and Dijkstra, even when another thread lowers dist[u] while
\* the request is being processed.
CandidateDistance ==
  [][WorklistBased /\ pc = "run" =>
       /\ \A tk \in Running' :
            tk.ph = "min" => tk.new_dist = tk.item.dist + Edges[tk.ii].w
       /\ (plan.algorithm \notin ParallelDelta =>
             \A i \in 1..Len(wl) :
               Dequeues(i) /\ ~Stale(i) => SerialCandidates(i))]_vars

\* C21 with the candidate the parallel strategy computes: in serial-delta
\* and Dijkstra the candidate offered to v is exactly d + w; in the parallel
\* delta-step strategy it is c + w, c being dist[u] as read when the edge is
\* processed, which is d unless another thread has lowered dist[u] since the
\* request was dequeued, and then c + w < d + w; the destination is set to
\* the least of its distance and the candidate.
CandidateDistanceCurrent ==
  [][WorklistBased /\ pc = "run" =>
       /\ \A nx \in Running' :
            nx.ph = "min" => nx.new_dist <= nx.item.dist + Edges[nx.ii].w
       /\ \A tk \in Running, nx \in Running' :
            tk.ph = "load" /\ nx.ph = "min" /\ task' = Step(tk, nx) =>
              nx.new_dist = dist[tk.item.src] + Edges[tk.ii].w
       /\ (plan.algorithm \in ParallelDelta /\ dist' # dist =>
             \E tk \in Running :
               /\ tk.ph = "min"
               /\ tk.new_dist < dist[Edges[tk.ii].dst]
               /\ dist' = [dist EXCEPT ![Edges[tk.ii].dst] = tk.new_dist])
       /\ (plan.algorithm \notin ParallelDelta =>
             \A i \in 1..Len(wl) :
               Dequeues(i) /\ ~Stale(i) => SerialCandidates(i))]_vars

\* a parallel worker holds a candidate below d + w: the node of its request
\* was lowered by another worker after the request was dequeued
CandidateDistanceCurrentWitness ==
  /\ plan.algorithm \in ParallelDelta
  /\ pc = "run"
  /\ \E tk \in Running :
       tk.ph = "min" /\ tk.new_dist < tk.item.dist + Edges[tk.ii].w

\* the plans whose worklist drains its buckets in non-decreasing key order:
\* SerialBucketWL, the min-heap, and OBIM with a barrier between buckets
OrderedDrain ==
  plan.algorithm \in SerialDelta \cup Dijkstra \cup {"kDeltaStepBarrier"}

\* how many times request x is pending in worklist q
Pending(q, x) == Cardinality({i \in 1..Len(q) : q[i] = x})

\* the positions of wl' holding a request this step has enqueued
NewRequests == {j \in 1..Len(wl') : Pending(wl', wl'[j]) > Pending(wl, wl'[j])}

\* the bucket being drained
Draining ==
  IF plan.algorithm \in SerialDelta THEN m_minBucket
  ELSE SetMin({UpdateRequestIndexer(wl[i]) : i \in 1..Len(wl)}
              \cup {UpdateRequestIndexer(tk.item) : tk \in Running})

\* every request this step enqueues has a key >= the key of the request
\* being processed and >= the bucket being drained
EnqueuesNoEarlier ==
  /\ \A tk \in Running :
       tk.ph = "min" /\ task' = Step(tk, NextEdge(tk)) =>
         \A j \in NewRequests :
           UpdateRequestIndexer(wl'[j]) >= UpdateRequestIndexer(tk.item)
  /\ (plan.algorithm \notin ParallelDelta =>
        \A i \in 1..Len(wl) :
          Dequeues(i) =>
            \A j \in NewRequests :
              UpdateRequestIndexer(wl'[j]) >= UpdateRequestIndexer(wl[i]))
  /\ \A j \in NewRequests : UpdateRequestIndexer(wl'[j]) >= Draining

\* C22: bucket monotonicity -- with non-negative weights and a worklist that
\* drains buckets in non-decreasing key order, every request enqueued while
\* processing a request of bucket k = floor(d / 2^shift) has a key >= k; no
\* request is ever inserted into a bucket earlier than the one currently
\* being drained.
BucketMonotonicity ==
  [][OrderedDrain /\ pc = "run" => EnqueuesNoEarlier]_vars

\* under a barrier plan a worker has enqueued the request of its previous
\* edge while other requests are still pending
BucketMonotonicityWitness ==
  /\ plan.algorithm = "kDeltaStepBarrier"
  /\ pc = "run"
  /\ \E tk \in Running, i \in 1..Len(wl) :
       /\ tk.ii > edgeRange(IsTiled, tk.item)[1]
       /\ wl[i].src = Edges[tk.ii - 1].dst
       /\ wl[i].dist = tk.item.dist + Edges[tk.ii - 1].w
       /\ UpdateRequestIndexer(wl[i]) > UpdateRequestIndexer(tk.item)
       /\ Len(wl) > 1

\* bucket monotonicity stated of every worklist-based plan; it does not hold
\* of the plans whose worklist hands out any pending request
BucketMonotonicityAnyDrain ==
  [][WorklistBased /\ pc = "run" => EnqueuesNoEarlier]_vars

\* C23: serial-delta drains completely -- with non-negative weights, when the
\* bucket loop of SerDeltaAlgo exits (wl.empty()), no request is left in any
\* bucket, so the allEmpty check never triggers the abort.
SerDeltaDrains ==
  plan.algorithm \in SerialDelta =>
    /\ pc # "aborted"
    /\ (pc = "run" =>
          \A i \in 1..Len(wl) : UpdateRequestIndexer(wl[i]) >= m_minBucket)
    /\ (pc = "run" /\ wlEmpty => wlAllEmpty)
    /\ (pc = "returned" => wlAllEmpty)

\* the bucket loop has exited after draining buckets beyond the first
SerDeltaDrainsWitness ==
  /\ plan.algorithm \in SerialDelta
  /\ pc = "returned"
  /\ ret.code = "Success"
  /\ m_minBucket > 1
  /\ wlAllEmpty

\* the topological strategies are running or have returned
TopoRunning == plan.algorithm = "kTopological" /\ pc = "run"
TopoTileRunning == plan.algorithm = "kTopologicalTile" /\ pc = "run"

\* the recorded value of every node (old_dist[n]) and of every tile (t.dist)
\* is >= the node's current distance
RecordedAbove ==
  pc = "run" \/ (pc = "returned" /\ ret = Result("Success")) =>
    /\ (plan.algorithm = "kTopological" =>
          \A n \in Nodes : old_dist[n] >= dist[n])
    /\ (plan.algorithm = "kTopologicalTile" =>
          \A k \in 1..Len(tiles) : tiles[k].dist >= dist[tiles[k].src])

\* the round loop has exited: every recorded value is the current distance
RecordedCurrent ==
  plan.algorithm \in Topological /\ pc = "returned" /\ ret = Result("Success") =>
    /\ (plan.algorithm = "kTopological" =>
          \A n \in Nodes : old_dist[n] = dist[n])
    /\ (plan.algorithm = "kTopologicalTile" =>
          \A k \in 1..Len(tiles) : tiles[k].dist = dist[tiles[k].src])

\* the task of node n relaxes n's edges, from n's current distance, exactly
\* when old_dist[n] > dist[n]
NodeRerelaxes(n) ==
  IF old_dist[n] > dist[n]
  THEN /\ old_dist' = [old_dist EXCEPT ![n] = dist[n]]
       /\ changed'
       /\ task' = Begin(StartLoop(UpdateRequest(n, dist[n])))
  ELSE old_dist' = old_dist /\ changed' = changed /\ task' = task

\* the task of tile k relaxes the tile's edges exactly when t.dist is above
\* the current distance of t.src
TileRerelaxes(k) ==
  IF tiles[k].dist > dist[tiles[k].src]
  THEN /\ tiles' = [tiles EXCEPT ![k].dist = dist[tiles[k].src]]
       /\ changed'
       /\ task' = Begin(StartLoop(tiles'[k]))
  ELSE tiles' = tiles /\ changed' = changed /\ task' = task

\* C24: topological SSSP re-relaxation -- in each round a node (or, in the
\* tiled variant, a tile) relaxes its outgoing edges if and only if the
\* distance it last recorded (old_dist[n], t.dist) is strictly greater than
\* the node's current distance; the recorded value is always >= the node's
\* current distance, and when the round loop exits the recorded value of
\* every node and tile equals the node's current distance and no distance
\* was written in the final round.
TopoRerelaxation ==
  /\ [](RecordedAbove /\ RecordedCurrent)
  /\ [][/\ (TopoRunning =>
              \A n \in todo : todo' = todo \ {n} => NodeRerelaxes(n))
        /\ (TopoTileRunning =>
              \A k \in todo : todo' = todo \ {k} => TileRerelaxes(k))
        /\ (plan.algorithm \in Topological /\ pc = "run" =>
              /\ (dist' # dist => changed /\ changed')
              /\ (task # EmptyBag => changed)
              /\ (pc' = "returned" => ~changed /\ dist' = dist))]_vars

\* a node or a tile that has relaxed its edges before is taken again with a
\* recorded value above the node's current distance
TopoRerelaxationWitness ==
  /\ pc = "run"
  /\ \/ /\ plan.algorithm = "kTopological"
        /\ \E n \in todo :
             old_dist[n] < kDistanceInfinity /\ old_dist[n] > dist[n]
     \/ /\ plan.algorithm = "kTopologicalTile"
        /\ \E k \in todo :
             /\ tiles[k].dist < kDistanceInfinity
             /\ tiles[k].dist > dist[tiles[k].src]

\* C25: SSSP called with a plan whose algorithm is none of the recognised
\* strategies returns InvalidArgument without having modified any node's
\* distance (the plan is validated before the distances are reset or any
\* relaxation runs).
UnknownPlanNoWrite ==
  plan.algorithm = kUnknownAlgorithm /\ pc = "returned" =>
    /\ ret = Result("InvalidArgument")
    /\ dist = PriorColumn(graph)

\* the part of C25 the code keeps: the unrecognised plan is answered with
\* InvalidArgument and no strategy runs; the distances have been reset by
\* then, the start node to 0 and every other node to the sentinel
UnknownPlanAfterReset ==
  plan.algorithm = kUnknownAlgorithm =>
    /\ Quiescent
    /\ pc \in {"start", "dispatch", "returned"}
    /\ (pc = "returned" =>
          /\ ret = Result("InvalidArgument")
          /\ (start_node < graph.size =>
                dist = [n \in Nodes |->
                          IF n = start_node THEN 0 ELSE kDistanceInfinity]))

\* ---------------------------------------------------------------------------
\* Residual PageRank: phases, stopping, interleavings, out-degrees
\* ---------------------------------------------------------------------------
\* the fields of every node but n are as they were
OthersKept(n) ==
  \A p \in PRNodes \ {n} :
    value'[p] = value[p] /\ residual'[p] = residual[p] /\ delta'[p] = delta[p]

\* C26: residual PageRank phase 1 -- a node with residual[v] > tolerance adds
\* that residual to its rank, sets residual[v] to 0 and, only if its
\* out-degree is > 0, sets delta[v] = old residual * alpha / outDegree[v] and
\* is counted active; a node with residual[v] <= tolerance keeps its rank and
\* its residual unchanged in phase 1 and ends phase 1 with delta[v] = 0.
ResidualPhaseOne ==
  [][PullResidual =>
       /\ \A v \in PRNodes :
            DeltaStepOn(v) =>
              /\ OthersKept(v)
              /\ IF FLess(pr_plan.tolerance, residual[v])
                 THEN /\ value'[v] = FPlus(value[v], residual[v])
                      /\ residual'[v] = Frac(0, 1)
                      /\ IF out[v] > 0
                         THEN /\ delta'[v] =
                                   FOver(FTimes(residual[v], pr_plan.alpha),
                                         out[v])
                              /\ accum' = accum + 1
                         ELSE delta'[v] = Frac(0, 1) /\ accum' = accum
                 ELSE /\ value'[v] = value[v]
                      /\ residual'[v] = residual[v]
                      /\ delta'[v] = Frac(0, 1)
                      /\ accum' = accum
       /\ (pr_pc = "PageRank_delta" /\ pr_pc' = "PageRank" =>
             /\ \A v \in PRNodes :
                  FLess(Frac(0, 1), residual[v]) => delta[v] = Frac(0, 1)
             /\ accum = Cardinality({v \in PRNodes :
                                       FLess(Frac(0, 1), delta[v])}))]_vars

\* phase 1 of a later round has passed a node whose residual is positive and
\* <= tolerance, and a node that was counted active
ResidualPhaseOneWitness ==
  /\ PullResidual
  /\ pr_pc = "PageRank_delta"
  /\ iterations >= 1
  /\ \E v \in PRNodes \ pr_todo :
       /\ FLess(Frac(0, 1), residual[v])
       /\ FLessEq(residual[v], pr_plan.tolerance)
       /\ delta[v] = Frac(0, 1)
  /\ \E p \in PRNodes \ pr_todo : FLess(Frac(0, 1), delta[p])

\* the sum of delta[p] over the entries of v among the first k entries of the
\* pull graph: one term for every predecessor p of v
RECURSIVE PredecessorSum(_, _)
PredecessorSum(v, k) ==
  IF k = 0 THEN Frac(0, 1)
  ELSE IF PREdges[k].src = v
       THEN FPlus(PredecessorSum(v, k - 1), delta[PREdges[k].dst])
       ELSE PredecessorSum(v, k - 1)

\* C27: residual PageRank phase 2 -- for every node v, if the sum of delta
\* over v's predecessors is positive then residual[v] after the phase equals
\* exactly that sum (the previous residual is overwritten, not added to); if
\* the sum is zero residual[v] is unchanged; phase 2 changes no rank and no
\* delta.
ResidualPhaseTwo ==
  [][PullResidual /\ pr_pc = "PageRank" =>
       /\ value' = value
       /\ delta' = delta
       /\ \A v \in PRNodes :
            LET sum == PredecessorSum(v, Len(PREdges))
            IN  /\ (ResidualStepOn(v) =>
                      /\ residual'[v] =
                           IF FLess(Frac(0, 1), sum) THEN sum ELSE residual[v]
                      /\ \A p \in PRNodes \ {v} : residual'[p] = residual[p])
                /\ (v \notin pr_todo' /\ FLess(Frac(0, 1), sum) =>
                      residual'[v] = sum)]_vars

\* phase 2 of a later round is over: a node that was not active in phase 1
\* holds the sum of its predecessors' deltas as its residual
ResidualPhaseTwoWitness ==
  /\ PullResidual
  /\ pr_pc = "PageRank"
  /\ pr_todo = {}
  /\ \E v \in PRNodes :
       /\ FLess(Frac(0, 1), PredecessorSum(v, Len(PREdges)))
       /\ residual[v] = PredecessorSum(v, Len(PREdges))
       /\ delta[v] = Frac(0, 1)
       /\ out[v] > 0
       /\ iterations >= 1

\* a round of the residual loop ends with this step
ResidualRoundEnds ==
  PullResidual /\ pr_pc = "PageRank" /\ iterations' = iterations + 1

\* C28: residual PageRank stopping -- the loop stops exactly after the first
\* round in which no node was counted active or in which the round count
\* reaches the maximum; when it stops because no node was active, every
\* node's residual is <= tolerance and every delta is 0.
ResidualStopping ==
  /\ [][PullResidual =>
          /\ (ResidualRoundEnds =>
                (pr_pc' = "done" <=>
                   accum = 0 \/ iterations' >= pr_plan.max_iterations))
          /\ (pr_pc # "done" /\ pr_pc' = "done" => ResidualRoundEnds)
          /\ (pr_pc = "done" => pr_pc' = "done")]_vars
  /\ [](PullResidual /\ pr_pc \in {"PageRank_delta", "PageRank"} =>
          iterations = 0 \/ iterations < pr_plan.max_iterations)
  /\ [](PullResidual /\ PagerankDone /\ accum = 0 =>
          \A n \in PRNodes :
            /\ FLessEq(residual[n], pr_plan.tolerance)
            /\ delta[n] = Frac(0, 1))

\* the loop was left before the maximum, after a round without active node
\* that followed a round with active nodes
ResidualStoppingWitness ==
  /\ PullResidual
  /\ PagerankDone
  /\ accum = 0
  /\ iterations >= 2
  /\ iterations < pr_plan.max_iterations
  /\ \E n \in PRNodes : FLess(Frac(0, 1), residual[n])

\* the entries of the pull graph that name node n: n's out-degree
EntriesNaming(n) == Cardinality({i \in 1..Len(PREdges) : PREdges[i].dst = n})

\* ranks, residuals and deltas before the first round
FieldsAtStart ==
  [value |-> [n \in PRNodes |-> Frac(0, 1)],
   residual |-> [n \in PRNodes |-> pr_plan.initial_residual],
   delta |-> [n \in PRNodes |-> Frac(0, 1)]]

\* phase 1 applied to fields f, every node from its own fields
PhaseOne(f) ==
  LET above(n) == FLess(pr_plan.tolerance, f.residual[n])
  IN  [value |-> [n \in PRNodes |->
                    IF above(n) THEN FPlus(f.value[n], f.residual[n])
                    ELSE f.value[n]],
       residual |-> [n \in PRNodes |->
                       IF above(n) THEN Frac(0, 1) ELSE f.residual[n]],
       delta |-> [n \in PRNodes |->
                    IF above(n) /\ EntriesNaming(n) > 0
                    THEN FOver(FTimes(f.residual[n], pr_plan.alpha),
                               EntriesNaming(n))
                    ELSE Frac(0, 1)]]

\* the sum of d[p] over the predecessors p of v among the first k entries
RECURSIVE SumOver(_, _, _)
SumOver(d, v, k) ==
  IF k = 0 THEN Frac(0, 1)
  ELSE IF PREdges[k].src = v
       THEN FPlus(SumOver(d, v, k - 1), d[PREdges[k].dst])
       ELSE SumOver(d, v, k - 1)

\* phase 2 applied to fields f, every node from the deltas of phase 1
PhaseTwo(f) ==
  [f EXCEPT !.residual =
     [n \in PRNodes |->
        IF FLess(Frac(0, 1), SumOver(f.delta, n, Len(PREdges)))
        THEN SumOver(f.delta, n, Len(PREdges))
        ELSE f.residual[n]]]

\* the fields after k rounds
RECURSIVE FieldsAfter(_)
FieldsAfter(k) ==
  IF k = 0 THEN FieldsAtStart ELSE PhaseTwo(PhaseOne(FieldsAfter(k - 1)))

\* the fields of node n in record f
Of(f, n) == <<f.value[n], f.residual[n], f.delta[n]>>
Fields == [value |-> value, residual |-> residual, delta |-> delta]

\* whatever the order of the tasks: a node's fields are those of the phase's
\* start until its task has run, and from then on what the task computes
\* from the phase's start
PhaseDeterminism ==
  PullResidual =>
    /\ (pr_pc = "PageRank_delta" =>
          LET f == FieldsAfter(iterations)
          IN  \A n \in PRNodes :
                Of(Fields, n) = IF n \in pr_todo THEN Of(f, n)
                                ELSE Of(PhaseOne(f), n))
    /\ (pr_pc = "PageRank" =>
          LET f == PhaseOne(FieldsAfter(iterations))
          IN  \A n \in PRNodes :
                Of(Fields, n) = IF n \in pr_todo THEN Of(f, n)
                                ELSE Of(PhaseTwo(f), n))
    /\ (pr_pc = "done" => Fields = FieldsAfter(iterations))

\* C29: single-writer phases -- in each phase of residual PageRank every
\* node's rank, residual and delta are written only by that node's own task,
\* and no task reads a field that another task writes in the same phase;
\* consequently the ranks, residuals and deltas after each round are the same
\* for every interleaving of the per-node tasks.
SingleWriterPhases ==
  /\ [](PhaseDeterminism)
  /\ [][PullResidual =>
          \A n \in PRNodes :
            /\ (DeltaStepOn(n) =>
                  \A p \in PRNodes \ {n} : Of(Fields, p)' = Of(Fields, p))
            /\ (ResidualStepOn(n) =>
                  /\ \A p \in PRNodes \ {n} : Of(Fields, p)' = Of(Fields, p)
                  /\ value'[n] = value[n]
                  /\ delta'[n] = delta[n])]_vars

\* in phase 2 of a later round the task of node 1 has run before the task of
\* node 0, with a residual written to node 1 and node 0 still holding its own
SingleWriterPhasesWitness ==
  /\ PullResidual
  /\ pr_pc = "PageRank"
  /\ iterations >= 1
  /\ pr_todo = {0}
  /\ pr_graph.size = 3
  /\ \E n \in PRNodes \ {0} :
       /\ FLess(Frac(0, 1), SumOver(delta, n, Len(PREdges)))
       /\ residual[n] = SumOver(delta, n, Len(PREdges))

\* C30: out-degree precomputation -- after ComputeOutDeg, under every
\* interleaving of the concurrent increments, each node's stored out value
\* equals exactly the number of edges of the (transposed) graph whose
\* destination is that node; no increment is lost.
OutDegreeCount ==
  /\ (pr_pc = "ComputeOutDeg" =>
        \A n \in PRNodes :
          vec[n] = Cardinality({i \in 1..Len(PREdges) \ pr_todo :
                                  PREdges[i].dst = n}))
  /\ (pr_pc \in {"PageRank_delta", "PageRank", "Pagerank Topological", "done"} =>
        \A n \in PRNodes : out[n] = EntriesNaming(n))

\* the increments of two nodes' tasks have interleaved on the counter of a
\* node that two entries name: the later task's entry was counted while an
\* entry of the earlier task was still pending
OutDegreeCountWitness ==
  /\ pr_pc = "ComputeOutDeg"
  /\ \E i, j \in 1..Len(PREdges) :
       /\ i < j
       /\ PREdges[i].src # PREdges[j].src
       /\ i \in pr_todo
       /\ j \notin pr_todo
       /\ \E n \in PRNodes : vec[n] = 1 /\ EntriesNaming(n) = 2

\* ---------------------------------------------------------------------------
\* Topological PageRank: divisors and the write of the new rank
\* ---------------------------------------------------------------------------
PrRunning == BagToSet(pr_task)

\* the predecessor named by every entry has a stored out value >= 1
DivisorsPositive ==
  PullTopological /\ pr_pc \in {"Pagerank Topological", "done"} =>
    \A i \in 1..Len(PREdges) : out[PREdges[i].dst] >= 1

\* this step is the task tk adding the term of its entry jj and becoming nx
ReadsEntry(tk, nx) ==
  /\ nx.src = tk.src
  /\ nx.jj = tk.jj + 1
  /\ pr_task' = (pr_task (-) SetToBag({tk})) (+) SetToBag({nx})

\* C31: topological PageRank never divides by zero -- in every round, for
\* every node and every predecessor entry it iterates, the predecessor's
\* stored out value used as divisor is >= 1; and each node's new rank is
\* alpha * (sum of predecessorRank / predecessorOut) + (1 - alpha) / N,
\* written back only after that sum is complete.
TopologicalRank ==
  /\ [](DivisorsPositive)
  /\ [][PullTopological /\ pr_pc = "Pagerank Topological" =>
          /\ \A nx \in PrRunning' \ PrRunning :
               nx.jj = pr_edge_begin(nx.src) => nx.sum = Frac(0, 1)
          /\ \A tk \in PrRunning, nx \in PrRunning' :
               ReadsEntry(tk, nx) =>
                 /\ tk.jj < pr_edge_end(tk.src)
                 /\ out[PREdges[tk.jj].dst] >= 1
                 /\ nx.sum = FPlus(tk.sum, FOver(value[PREdges[tk.jj].dst],
                                                 out[PREdges[tk.jj].dst]))
                 /\ value' = value
          /\ \A n \in PRNodes :
               value'[n] # value[n] =>
                 \E tk \in PrRunning :
                   /\ tk.src = n
                   /\ tk.jj = pr_edge_end(n)
                   /\ pr_task' = pr_task (-) SetToBag({tk})
                   /\ value'[n] =
                        FPlus(FTimes(pr_plan.alpha, tk.sum),
                              FOver(FMinus(Frac(1, 1), pr_plan.alpha),
                                    pr_graph.size))]_vars

\* in a later round a task has completed a sum with a term divided by an out
\* value of 2 and is about to write its node's rank
TopologicalRankWitness ==
  /\ PullTopological
  /\ pr_pc = "Pagerank Topological"
  /\ iterations >= 1
  /\ \E tk \in PrRunning :
       /\ tk.jj = pr_edge_end(tk.src)
       /\ tk.jj > pr_edge_begin(tk.src)
       /\ FLess(Frac(0, 1), tk.sum)
       /\ out[PREdges[tk.jj - 1].dst] = 2
====
